---- MODULE Spec2Model ----
(***************************************************************************)
(* Driver framework of the hardware package: the class-level registry of   *)
(* BaseDriver (instancesInfo, channelsOperationsInfo, receivedMsgsBuffer), *)
(* the construction of Serial/CAN/SPI senders and receivers, the bounded   *)
(* connect loop, and the per-channel central_receive dispatcher threads.   *)
(***************************************************************************)
EXTENDS Integers, Sequences, FiniteSets, TLC

VARIABLES
    instancesInfo,           \* BaseDriver.instancesInfo: msgName -> info dict
    channelsOperationsInfo,  \* BaseDriver.channelsOperationsInfo: channel -> counters
    receivedMsgsBuffer,      \* BaseDriver.receivedMsgsBuffer: channel -> (msgID -> payload | None)
    objs,                    \* private attributes of the registered driver objects
    threads,                 \* central_receive thread of each channel that has one
    threadsStarted,          \* channel -> number of Thread.start() calls made for it
    framesRead,              \* number of frames the transports have delivered so far
    accepted,                \* channel -> msgID -> payload accepted last since the last invalidation
    calls,                   \* caller thread -> its send() call and the worker it joins
    succeeded,               \* msgName -> number of send() calls that returned 0
    written,                 \* channel -> the last write() not yet read by the peer
    loggers,                 \* logging.getLogger: logger name -> its handlers
    building,                \* constructing thread -> the construction it is in
    lastOp                   \* the operation executed last, with its arguments and outcome

vars == <<instancesInfo, channelsOperationsInfo, receivedMsgsBuffer, objs,
          threads, threadsStarted, framesRead, accepted, calls, succeeded,
          written, loggers, lastOp>>

\* what the receive side leaves alone
sendVars == <<calls, succeeded, written>>

-----------------------------------------------------------------------------
(* Python values.  A value carries its type so that isinstance() and `is    *)
(* None` are decided as the interpreter decides them.                       *)

PyNone == [ty |-> "NoneType", n |-> 0, s |-> "", b |-> <<>>]
PyInt(i) == [ty |-> "int", n |-> i, s |-> "", b |-> <<>>]
PyStr(x) == [ty |-> "str", n |-> 0, s |-> x, b |-> <<>>]
PyBytes(x) == [ty |-> "bytes", n |-> 0, s |-> "", b |-> x]

EmptyDict == <<>>

-----------------------------------------------------------------------------
(* Bounds of the model and input domains.                                   *)

MaxFrames == 2

Names == {PyStr("a"), PyStr("b")}
SerialChannels == {PyStr("ttyS0")}
CANChannels == {PyStr("can0")}
SPIChannels == {PyStr("0.0")}
Channels == SerialChannels \cup CANChannels \cup SPIChannels
MsgIDs == {PyNone, PyInt(16), PyInt(17)}
FrameIDs == {16, 17, 18}
Payloads == {<<42>>, <<7>>}
Classes == {"SerialSender", "SerialReceiver", "CANSender", "CANReceiver",
            "SPISender", "SPIReceiver"}

OperationOf(cls) ==
    IF cls \in {"SerialSender", "CANSender", "SPISender"} THEN "send" ELSE "receive"

ProtocolOf(cls) ==
    IF cls \in {"SerialSender", "SerialReceiver"} THEN "Serial"
    ELSE IF cls \in {"CANSender", "CANReceiver"} THEN "CAN" ELSE "SPI"

-----------------------------------------------------------------------------
(* BaseDriver._try_to_connect.  connect() fails `fails` times and succeeds  *)
(* from then on; the loop is evaluated as the code runs it.                 *)

max_retries == (60 * 3) \div 2

RECURSIVE TryLoopOneMore(_, _)
TryLoopOneMore(retries, fails) ==
    IF retries <= max_retries
    THEN IF retries + 1 > fails
         THEN [connected |-> TRUE, attempts |-> retries + 1,
               slept |-> 2 * retries, raised |-> FALSE]
         ELSE TryLoopOneMore(retries + 1, fails)
    ELSE [connected |-> FALSE, attempts |-> retries,
          slept |-> 2 * retries, raised |-> TRUE]

RECURSIVE TryLoop(_, _)
TryLoop(retries, fails) ==
    IF retries < max_retries
    THEN IF retries + 1 > fails
         THEN [connected |-> TRUE, attempts |-> retries + 1,
               slept |-> 2 * retries, raised |-> FALSE]
         ELSE TryLoop(retries + 1, fails)
    ELSE [connected |-> FALSE, attempts |-> retries,
          slept |-> 2 * retries, raised |-> TRUE]

TryToConnect(fails) == TryLoop(0, fails)

ConnectFails == {0, max_retries - 1, max_retries}

-----------------------------------------------------------------------------
(* Property setters of BaseDriver, in the order __init__ runs them.         *)

MsgNameSetterNoUnique(value) ==
    IF value.ty # "str" THEN "TypeError" ELSE "ok"

MsgNameSetterUntyped(value) ==
    IF value.s \in DOMAIN instancesInfo THEN "ValueError" ELSE "ok"

MsgNameSetter(value) ==
    IF value.ty # "str" THEN "TypeError"
    ELSE IF value.s \in DOMAIN instancesInfo THEN "ValueError"
    ELSE "ok"

OperationSetter(value) ==
    IF value.ty # "str" THEN "TypeError"
    ELSE IF value.s \notin {"send", "receive"} THEN "ValueError"
    ELSE "ok"

ChannelSetter(value) ==
    IF value.ty # "str" THEN "TypeError" ELSE "ok"

SameOpChan(operation, channel) ==
    {nm \in DOMAIN instancesInfo :
        /\ instancesInfo[nm].operation = operation
        /\ instancesInfo[nm].channel = channel}

MsgIDSetterNoDuplicateCheck(value, operation, channel) ==
    IF value.ty \notin {"NoneType", "int"} THEN "TypeError"
    ELSE IF value = PyNone
         THEN IF SameOpChan(operation, channel) # {} THEN "ValueError" ELSE "ok"
         ELSE IF \E nm \in SameOpChan(operation, channel) : instancesInfo[nm].id = PyNone
              THEN "ValueError"
              ELSE "ok"

MsgIDSetterNoNoneHolderCheck(value, operation, channel) ==
    IF value.ty \notin {"NoneType", "int"} THEN "TypeError"
    ELSE IF value = PyNone
         THEN IF SameOpChan(operation, channel) # {} THEN "ValueError" ELSE "ok"
         ELSE IF \E nm \in SameOpChan(operation, channel) : instancesInfo[nm].id = value
              THEN "ValueError"
              ELSE "ok"

MsgIDSetter(value, operation, channel) ==
    IF value.ty \notin {"NoneType", "int"} THEN "TypeError"
    ELSE IF value = PyNone
         THEN IF SameOpChan(operation, channel) # {} THEN "ValueError" ELSE "ok"
         ELSE IF \E nm \in SameOpChan(operation, channel) : instancesInfo[nm].id = PyNone
              THEN "ValueError"
              ELSE IF \E nm \in SameOpChan(operation, channel) : instancesInfo[nm].id = value
                   THEN "ValueError"
                   ELSE "ok"

TimeoutSetterUnchecked(value) == "ok"

TimeoutSetter(value) ==
    IF value.ty # "int" THEN "TypeError" ELSE "ok"

Validate(msgName, operation, channel, msgID, timeout) ==
    IF MsgNameSetter(msgName) # "ok" THEN MsgNameSetter(msgName)
    ELSE IF OperationSetter(operation) # "ok" THEN OperationSetter(operation)
    ELSE IF ChannelSetter(channel) # "ok" THEN ChannelSetter(channel)
    ELSE IF MsgIDSetter(msgID, operation.s, channel.s) # "ok"
         THEN MsgIDSetter(msgID, operation.s, channel.s)
    ELSE TimeoutSetter(timeout)

-----------------------------------------------------------------------------
(* BaseDriver.__store_info and BaseDriver._set_central_receiver.            *)

StoreInstance(name, cls, channel, msgID) ==
    (name :> [id |-> msgID, protocol |-> cls, channel |-> channel,
              operation |-> OperationOf(cls), running |-> TRUE, numOfMsgs |-> 0])
    @@ instancesInfo

NewChannelInfo ==
    [receive |-> EmptyDict, send |-> EmptyDict, receivedInBuffer |-> 0, sentInBuffer |-> 0]

StoreChannel(cls, channel, msgID) ==
    LET base == IF channel \in DOMAIN channelsOperationsInfo
                THEN channelsOperationsInfo
                ELSE (channel :> NewChannelInfo) @@ channelsOperationsInfo
        op == OperationOf(cls)
    IN [base EXCEPT ![channel][op] = (msgID :> 0) @@ base[channel][op]]

SetCentralReceiverAlwaysStarts(st, name, operation, channel, msgID) ==
    IF operation = "receive"
    THEN [buf |-> IF channel \in DOMAIN st.buf
                  THEN [st.buf EXCEPT ![channel] = (msgID :> PyNone) @@ @]
                  ELSE (channel :> (msgID :> PyNone)) @@ st.buf,
          thr |-> (channel :> [self |-> name, pc |-> "run"]) @@ st.thr,
          started |-> [st.started EXCEPT ![channel] = @ + 1]]
    ELSE st

\* st = [buf, thr, started]: the buffer map, the thread map and the start counters
SetCentralReceiver(st, name, operation, channel, msgID) ==
    IF operation = "receive"
    THEN IF channel \notin DOMAIN st.buf
         THEN [buf |-> (channel :> (msgID :> PyNone)) @@ st.buf,
               thr |-> (channel :> [self |-> name, pc |-> "run"]) @@ st.thr,
               started |-> [st.started EXCEPT ![channel] = @ + 1]]
         ELSE [st EXCEPT !.buf[channel] = (msgID :> PyNone) @@ st.buf[channel]]
    ELSE st

-----------------------------------------------------------------------------
(* LoggingMixin.log_instance_created formats self.baudrate, an attribute    *)
(* the SPI classes never define: for them the call raises AttributeError.   *)

LogInstanceCreated(cls) ==
    IF ProtocolOf(cls) = "SPI" THEN "AttributeError" ELSE "ok"

NoOp ==
    [kind |-> "none", cls |-> "", name |-> PyNone, ch |-> PyNone, id |-> PyNone,
     result |-> "", fails |-> 0, attempts |-> 0, slept |-> 0, data |-> PyNone,
     hdr |-> FALSE, again |-> FALSE, ret |-> PyNone, elapsed |-> 0,
     msg |-> PyNone, caller |-> 0, timeout |-> PyNone]

-----------------------------------------------------------------------------
(* Construction of a driver: the subclass __init__ chain down to            *)
(* BaseDriver.__init__, then the tail of CANBaseDriver/SPIBaseDriver        *)
(* __init__, then BaseDriver.__del__ of an object nothing refers to.        *)

Construct(cls, msgName, channel, msgID, idLen, lenLen, timeout, fails) ==
    LET operation == OperationOf(cls)
        name == msgName.s
        ch == channel.s
        op0 == [NoOp EXCEPT !.kind = "construct", !.cls = cls, !.name = msgName,
                            !.ch = channel, !.id = msgID, !.timeout = timeout]
    IN  \E valid \in {Validate(msgName, PyStr(operation), channel, msgID, timeout)} :
        \* a setter raised: _try_to_connect() is not reached; the __del__ of the
        \* half-built object finds no open transport and no registry entry
        IF valid # "ok"
        THEN /\ lastOp' = [op0 EXCEPT !.result = valid]
             /\ UNCHANGED <<instancesInfo, channelsOperationsInfo, receivedMsgsBuffer,
                            objs, threads, threadsStarted, framesRead>>
        ELSE \E conn \in {TryToConnect(fails)} :
             IF conn.raised
             THEN /\ lastOp' = [op0 EXCEPT !.result = "ConnectionError",
                                           !.fails = fails,
                                           !.attempts = conn.attempts,
                                           !.slept = conn.slept]
                  /\ UNCHANGED <<instancesInfo, channelsOperationsInfo,
                                 receivedMsgsBuffer, objs, threads, threadsStarted,
                                 framesRead>>
             ELSE LET st0 == [buf |-> receivedMsgsBuffer, thr |-> threads,
                              started |-> threadsStarted]
                      \* BaseDriver.__init__: _set_central_receiver()
                      st1 == SetCentralReceiver(st0, name, operation, ch, msgID)
                      logged == LogInstanceCreated(cls)
                      \* CANBaseDriver/SPIBaseDriver.__init__ after super().__init__()
                      st2 == IF /\ logged = "ok"
                                /\ ProtocolOf(cls) \in {"CAN", "SPI"}
                                /\ operation = "receive"
                             THEN SetCentralReceiver(st1, name, operation, ch, msgID)
                             ELSE st1
                      stored == StoreInstance(name, cls, ch, msgID)
                  IN  \E st \in {st2} :
                      \* no caller keeps the object of a constructor that raised;
                      \* __del__ -> disconnect() -> stop() unless the thread holds it
                      LET owner == ch \in DOMAIN st.thr /\ st.thr[ch].self = name
                          collected == logged # "ok" /\ ~owner
                      IN  /\ instancesInfo' =
                                 IF collected THEN [stored EXCEPT ![name].running = FALSE]
                                 ELSE stored
                          /\ channelsOperationsInfo' = StoreChannel(cls, ch, msgID)
                          /\ receivedMsgsBuffer' = st.buf
                          /\ threads' = st.thr
                          /\ threadsStarted' = st.started
                          /\ objs' = (name :> [cls |-> cls, channel |-> ch,
                                               msgID |-> msgID, msgIDLength |-> idLen,
                                               msgLenLength |-> lenLen,
                                               isRunning |-> ~collected,
                                               isConnected |-> TRUE, numOfMsgs |-> 0,
                                               handle |-> logged = "ok",
                                               closed |-> FALSE,
                                               timeout |-> timeout.n,
                                               pending_message |-> PyNone,
                                               \* the thread this constructor started
                                               \* runs while the constructor goes on
                                               ctor |-> IF st1.started # st0.started
                                                        THEN "line73" ELSE "done"])
                                     @@ objs
                          /\ lastOp' = [op0 EXCEPT !.result = logged,
                                                   !.fails = fails,
                                                   !.attempts = conn.attempts,
                                                   !.slept = conn.slept]
                          /\ UNCHANGED framesRead

ChannelsOf(cls) ==
    IF ProtocolOf(cls) = "Serial" THEN SerialChannels
    ELSE IF ProtocolOf(cls) = "CAN" THEN CANChannels ELSE SPIChannels

IDLengths(cls) ==
    IF ProtocolOf(cls) = "CAN" THEN {0}
    ELSE IF ProtocolOf(cls) = "Serial" THEN {0, 1} ELSE {1}
LenLengths(cls) == IF ProtocolOf(cls) = "SPI" THEN {0, 1} ELSE {0}

\* the constructors are called one after the other by the program's main
\* thread: none begins while another has statements left to run
NoConstructorRunning == \A n \in DOMAIN objs : objs[n].ctor = "done"

\* the statements a constructor runs after Thread.start(): the second buffer
\* initialisation of _set_central_receiver (base_driver.py line 73) and, in
\* CANBaseDriver.__init__, the repeated _set_central_receiver() call
SetCentralReceiverTail(name) ==
    /\ name \in DOMAIN objs
    /\ objs[name].ctor # "done"
    /\ LET self == objs[name]
       IN  /\ receivedMsgsBuffer' =
                  [receivedMsgsBuffer EXCEPT ![self.channel][self.msgID] = PyNone]
           /\ objs' = [objs EXCEPT ![name].ctor =
                          IF self.ctor = "line73" /\ ProtocolOf(self.cls) = "CAN"
                          THEN "line35" ELSE "done"]
           /\ lastOp' = [NoOp EXCEPT !.kind = "ctor", !.name = PyStr(name),
                                     !.ch = PyStr(self.channel), !.id = self.msgID,
                                     !.result = self.ctor]
    /\ UNCHANGED <<instancesInfo, channelsOperationsInfo, threads, threadsStarted, building, loggers,
                   framesRead, accepted, sendVars>>

\* any driver, any connect outcome, one-byte identifier header where there is one
ConstructDriver ==
    \E cls \in Classes, msgName \in Names, msgID \in MsgIDs, fails \in ConnectFails :
        \E channel \in ChannelsOf(cls) :
            /\ NoConstructorRunning
            /\ Construct(cls, msgName, channel, msgID,
                         IF ProtocolOf(cls) = "CAN" THEN 0 ELSE 1, 0, PyInt(5), fails)
            /\ UNCHANGED <<accepted, sendVars, building, loggers>>

\* a driver of each transport with arguments of any type on a transport that connects at the
\* first attempt; the channel of an SPI driver is
\* the string its constructor formats from bus and device
ConstructAnyArguments ==
    \E cls \in {"SerialSender", "CANReceiver", "SPIReceiver"}, msgName \in Names \cup {PyInt(1)},
       msgID \in MsgIDs \cup {PyStr("x")}, timeout \in {PyInt(5), PyStr("5")} :
        \E channel \in ChannelsOf(cls) \cup
                       (IF ProtocolOf(cls) = "SPI" THEN {} ELSE {PyInt(0)}) :
            /\ NoConstructorRunning
            /\ Construct(cls, msgName, channel, msgID,
                         IF ProtocolOf(cls) = "CAN" THEN 0 ELSE 1, 0, timeout, 0)
            /\ UNCHANGED <<accepted, sendVars, building, loggers>>

\* a driver under a name of any type, the empty string among the strings, on
\* a transport that connects at the first attempt
AnyNames == {PyNone, PyInt(123), PyStr(""), PyStr("a")}

ConstructAnyName ==
    \E cls \in {"SerialSender", "SerialReceiver", "CANSender"}, msgName \in AnyNames,
       msgID \in MsgIDs :
        \E channel \in ChannelsOf(cls) :
            /\ NoConstructorRunning
            /\ Construct(cls, msgName, channel, msgID,
                         IF ProtocolOf(cls) = "CAN" THEN 0 ELSE 1, 0, PyInt(5), 0)
            /\ UNCHANGED <<accepted, sendVars, building, loggers>>

\* a receiver that passes validation, with any header layout, on a transport
\* that connects at the first attempt (ConstructDriver covers the rest)
ConstructReceiver ==
    \E cls \in {"SerialReceiver", "CANReceiver", "SPIReceiver"},
       msgName \in Names, msgID \in MsgIDs :
        \E channel \in ChannelsOf(cls), idLen \in IDLengths(cls), lenLen \in LenLengths(cls) :
            /\ NoConstructorRunning
            /\ Validate(msgName, PyStr("receive"), channel, msgID, PyInt(5)) = "ok"
            /\ Construct(cls, msgName, channel, msgID, idLen, lenLen, PyInt(5), 0)
            /\ UNCHANGED <<accepted, sendVars, building, loggers>>

-----------------------------------------------------------------------------
(* Bytes on the wire.                                                       *)

Min(a, b) == IF a < b THEN a ELSE b

\* Python slice s[from:to] with 0-based bounds from <= to
Slice(s, from, to) == SubSeq(s, from + 1, Min(to, Len(s)))

RECURSIVE FromBytesLittle(_)
FromBytesLittle(bs) ==
    IF bs = <<>> THEN 0 ELSE Head(bs) + 256 * FromBytesLittle(Tail(bs))

RECURSIVE FromBytesBig(_)
FromBytesBig(bs) ==
    IF bs = <<>> THEN 0
    ELSE 256 * FromBytesBig(SubSeq(bs, 1, Len(bs) - 1)) + bs[Len(bs)]

RECURSIVE ToBytesLittle(_, _)
ToBytesLittle(v, length) ==
    IF length = 0 THEN <<>> ELSE <<v % 256>> \o ToBytesLittle(v \div 256, length - 1)

RECURSIVE ToBytesBig(_, _)
ToBytesBig(v, length) ==
    IF length = 0 THEN <<>> ELSE ToBytesBig(v \div 256, length - 1) \o <<v % 256>>

\* the lines successive readline() calls return for the bytes w
RECURSIVE ReadLines(_)
ReadLines(w) ==
    IF w = <<>> THEN <<>>
    ELSE IF \E i \in 1..Len(w) : w[i] = 10
         THEN LET k == CHOOSE i \in 1..Len(w) :
                           w[i] = 10 /\ \A j \in 1..(i - 1) : w[j] # 10
              IN <<SubSeq(w, 1, k)>> \o ReadLines(SubSeq(w, k + 1, Len(w)))
         ELSE <<w>>

\* what the peer device puts on a serial line for (identifier, payload)
SerialWire(idLen, fid, data) ==
    (IF idLen # 0 THEN ToBytesLittle(fid, idLen) \o <<Len(data)>> \o data ELSE data)
    \o <<10>>

PacketSize == 2

RECURSIVE ZeroPad(_, _)
ZeroPad(bs, size) ==
    IF Len(bs) >= size THEN SubSeq(bs, 1, size) ELSE ZeroPad(bs \o <<0>>, size)

\* what a full-duplex poll of packet_size bytes returns for (identifier, payload)
SPIWire(idLen, fid, data) == ZeroPad(ToBytesBig(fid, idLen) \o data, PacketSize)

-----------------------------------------------------------------------------
(* Frame handlers of the three receivers.  A handler maps the registry      *)
(* parts [buf, info] of one channel to their new values.                    *)

SERIALBUFFER == 64
SPIBUFFER == 4096

\* SerialBaseDriver.clean_buffer, receive side
SerialCleanBuffer(info) ==
    IF info.receivedInBuffer >= SERIALBUFFER
    THEN [info EXCEPT !.receivedInBuffer = 0] ELSE info

\* SPIBaseDriver.clean_buffer
SPICleanBuffer(info) ==
    LET i1 == IF info.sentInBuffer >= SPIBUFFER
              THEN [info EXCEPT !.sentInBuffer = 0] ELSE info
    IN IF i1.receivedInBuffer >= SPIBUFFER
       THEN [i1 EXCEPT !.receivedInBuffer = 0] ELSE i1

RECURSIVE SerialGather(_, _, _)
SerialGather(msg, msg_length, more) ==
    IF Len(msg) < msg_length + 1
    THEN IF more = <<>>
         THEN [complete |-> FALSE, msg |-> msg]
         ELSE SerialGather(msg \o Head(more), msg_length, Tail(more))
    ELSE [complete |-> TRUE, msg |-> msg]

SerialHandleKeepsPartial(self, lines, buf, info) ==
    LET read == IF lines = <<>> THEN <<>> ELSE Head(lines)
        N == self.msgIDLength
    IN  IF read = <<>> THEN [buf |-> buf, info |-> info]
        ELSE IF N # 0
        THEN LET id == FromBytesLittle(Slice(read, 0, N))
                 msg_length == FromBytesLittle(Slice(read, N, N + 1))
                 got == SerialGather(Slice(read, N + 1, Len(read)), msg_length, Tail(lines))
                 payload == Slice(got.msg, 0, msg_length)
                 hit == PyInt(id) \in DOMAIN buf
                 buf1 == IF hit THEN [buf EXCEPT ![PyInt(id)] = PyBytes(payload)] ELSE buf
                 info1 == IF hit THEN [info EXCEPT !.receive[PyInt(id)] = @ + 1] ELSE info
                 info2 == [info1 EXCEPT !.receivedInBuffer = @ + N + 1 + msg_length]
             IN  [buf |-> buf1, info |-> SerialCleanBuffer(info2)]
        ELSE LET msg == Slice(read, 0, Len(read) - 1)
                 info1 == [info EXCEPT !.receive[self.msgID] = @ + 1,
                                       !.receivedInBuffer = @ + Len(msg) + 1]
             IN  [buf |-> [buf EXCEPT ![self.msgID] = PyBytes(msg)],
                  info |-> SerialCleanBuffer(info1)]

\* SerialReceiver.__handle_received_msg; lines = the readline() results to come
SerialHandle(self, lines, buf, info) ==
    LET read == IF lines = <<>> THEN <<>> ELSE Head(lines)
        N == self.msgIDLength
    IN  IF read = <<>> THEN [buf |-> buf, info |-> info]
        ELSE IF N # 0
        THEN LET id == FromBytesLittle(Slice(read, 0, N))
                 msg_length == FromBytesLittle(Slice(read, N, N + 1))
                 got == SerialGather(Slice(read, N + 1, Len(read)), msg_length, Tail(lines))
                 payload == Slice(got.msg, 0, msg_length)
                 hit == PyInt(id) \in DOMAIN buf
                 buf1 == IF hit THEN [buf EXCEPT ![PyInt(id)] = PyBytes(payload)] ELSE buf
                 info1 == IF hit THEN [info EXCEPT !.receive[PyInt(id)] = @ + 1] ELSE info
                 info2 == [info1 EXCEPT !.receivedInBuffer = @ + N + 1 + msg_length]
             IN  IF ~got.complete THEN [buf |-> buf, info |-> info]
                 ELSE [buf |-> buf1, info |-> SerialCleanBuffer(info2)]
        ELSE LET msg == Slice(read, 0, Len(read) - 1)
                 info1 == [info EXCEPT !.receive[self.msgID] = @ + 1,
                                       !.receivedInBuffer = @ + Len(msg) + 1]
             IN  [buf |-> [buf EXCEPT ![self.msgID] = PyBytes(msg)],
                  info |-> SerialCleanBuffer(info1)]

CANHandleNoFilter(self, arbitration_id, data, buf, info) ==
    [buf |-> [buf EXCEPT ![self.msgID] = PyBytes(data)],
     info |-> [info EXCEPT !.receive[self.msgID] = @ + 1,
                           !.receivedInBuffer = @ + Len(data)]]

\* CANReceiver.__handle_message
CANHandle(self, arbitration_id, data, buf, info) ==
    IF PyInt(arbitration_id) = self.msgID
    THEN [buf |-> [buf EXCEPT ![self.msgID] = PyBytes(data)],
          info |-> [info EXCEPT !.receive[self.msgID] = @ + 1,
                                !.receivedInBuffer = @ + Len(data)]]
    ELSE [buf |-> buf, info |-> info]

SPIHandleOwnIdentifier(self, raw, buf, info) ==
    IF raw = <<>> THEN [buf |-> buf, info |-> info]
    ELSE LET data == IF self.msgLenLength # 0
                     THEN Slice(raw, self.msgLenLength, Len(raw)) ELSE raw
             payload == IF self.msgIDLength # 0
                        THEN Slice(data, self.msgIDLength, Len(data)) ELSE data
         IN  [buf |-> [buf EXCEPT ![self.msgID] = PyBytes(payload)],
              info |-> SPICleanBuffer([info EXCEPT !.receive[self.msgID] = @ + 1,
                                                   !.receivedInBuffer = @ + Len(raw)])]

\* SPIReceiver.__handle_received_msg
SPIHandle(self, raw, buf, info) ==
    IF raw = <<>> THEN [buf |-> buf, info |-> info]
    ELSE LET data == IF self.msgLenLength # 0
                     THEN Slice(raw, self.msgLenLength, Len(raw)) ELSE raw
             msg_id == IF self.msgIDLength # 0
                       THEN PyInt(FromBytesBig(Slice(data, 0, self.msgIDLength)))
                       ELSE self.msgID
             payload == IF self.msgIDLength # 0
                        THEN Slice(data, self.msgIDLength, Len(data)) ELSE data
             hit == msg_id \in DOMAIN buf
             buf1 == IF hit THEN [buf EXCEPT ![msg_id] = PyBytes(payload)] ELSE buf
             info1 == IF hit
                      THEN [info EXCEPT !.receive[msg_id] = @ + 1,
                                        !.receivedInBuffer = @ + Len(raw)]
                      ELSE info
         IN  [buf |-> buf1, info |-> SPICleanBuffer(info1)]

\* __none_all_data of the three receivers
NoneAllData(buf) == [k \in DOMAIN buf |-> PyNone]

-----------------------------------------------------------------------------
(* The central_receive thread of a channel, run by the receiver that        *)
(* started it (threads[ch].self).                                           *)

Running(ch) == ch \in DOMAIN threads /\ threads[ch].pc = "run"

\* the read of one loop iteration raises: a list and bytes are concatenated
\* when SPIReceiver.central_receive reads a length header
ReadRaises(self) == ProtocolOf(self.cls) = "SPI" /\ self.msgLenLength # 0

\* CANReceiver.__init__ assigns recv_timeout after CANBaseDriver.__init__ has
\* returned: until then the bus.recv(timeout=self.recv_timeout) of the
\* dispatcher the constructor started raises AttributeError
RecvTimeoutUnset(self) == ProtocolOf(self.cls) = "CAN" /\ self.ctor # "done"

\* the transport handle of the object can be read: serial_conn.is_open, a
\* bus that was not shut down, the _isConnected flag of an SPI object
Readable(self) ==
    IF ProtocolOf(self.cls) = "CAN" THEN ~self.closed ELSE self.isConnected

HasIDHeader(self) == ProtocolOf(self.cls) = "CAN" \/ self.msgIDLength # 0

Handle(self, fid, data, buf, info) ==
    IF ProtocolOf(self.cls) = "Serial"
    THEN SerialHandle(self, ReadLines(SerialWire(self.msgIDLength, fid, data)), buf, info)
    ELSE IF ProtocolOf(self.cls) = "CAN"
    THEN CANHandle(self, fid, data, buf, info)
    ELSE SPIHandle(self, SPIWire(self.msgIDLength, fid, data), buf, info)

\* the payload of the frame accepted last for each identifier, None when no
\* frame has been accepted for it since the last invalidation
NothingAccepted == [k \in MsgIDs |-> PyNone]

\* a frame is accepted for the identifier whose receive counter a handler raised
Accept(acc, counters, out) ==
    [k \in MsgIDs |->
        IF k \in DOMAIN counters /\ out.info.receive[k] # counters[k]
        THEN out.buf[k] ELSE acc[k]]

\* one loop iteration in which the transport delivers the frame (fid, data)
DispatchFrame(ch, fid, data) ==
    /\ Running(ch)
    /\ framesRead < MaxFrames
    /\ LET self == objs[threads[ch].self]
           op0 == [NoOp EXCEPT !.kind = "frame", !.ch = PyStr(ch), !.id = PyInt(fid),
                               !.data = PyBytes(data), !.hdr = HasIDHeader(self)]
       IN  /\ self.isRunning \/ ProtocolOf(self.cls) # "CAN"
           /\ Readable(self)
           /\ IF ReadRaises(self) \/ RecvTimeoutUnset(self)
              THEN /\ receivedMsgsBuffer' =
                          [receivedMsgsBuffer EXCEPT ![ch] = NoneAllData(@)]
                   /\ accepted' = [accepted EXCEPT ![ch] = NothingAccepted]
                   /\ threads' = [threads EXCEPT ![ch].pc = "reconnect"]
                   /\ lastOp' = [op0 EXCEPT !.result = IF RecvTimeoutUnset(self)
                                                      THEN "AttributeError"
                                                      ELSE "TypeError"]
                   /\ UNCHANGED channelsOperationsInfo
              ELSE \E out \in {Handle(self, fid, data, receivedMsgsBuffer[ch],
                                        channelsOperationsInfo[ch])} :
                   /\ receivedMsgsBuffer' = [receivedMsgsBuffer EXCEPT ![ch] = out.buf]
                   /\ channelsOperationsInfo' =
                          [channelsOperationsInfo EXCEPT ![ch] = out.info]
                   /\ accepted' =
                          [accepted EXCEPT ![ch] =
                              Accept(@, channelsOperationsInfo[ch].receive, out)]
                   /\ lastOp' = [op0 EXCEPT !.result = "ok"]
                   /\ UNCHANGED threads
    /\ framesRead' = framesRead + 1
    /\ UNCHANGED <<instancesInfo, objs, threadsStarted, building, loggers, sendVars>>

ReadFailUncaught(ch) ==
    /\ Running(ch)
    /\ threads' = [threads EXCEPT ![ch].pc = "dead"]
    /\ lastOp' = [NoOp EXCEPT !.kind = "readfail", !.ch = PyStr(ch), !.result = "IOError"]
    /\ UNCHANGED <<instancesInfo, channelsOperationsInfo, receivedMsgsBuffer, objs,
                   threadsStarted, building, loggers, framesRead, accepted, sendVars>>

ReadFailKeepsData(ch) ==
    /\ Running(ch)
    /\ threads' = [threads EXCEPT ![ch].pc = "reconnect"]
    /\ lastOp' = [NoOp EXCEPT !.kind = "readfail", !.ch = PyStr(ch), !.result = "IOError"]
    /\ UNCHANGED <<instancesInfo, channelsOperationsInfo, receivedMsgsBuffer, objs,
                   threadsStarted, building, loggers, framesRead, accepted, sendVars>>

ReadFailResetsCounters(ch) ==
    /\ Running(ch)
    /\ receivedMsgsBuffer' = [receivedMsgsBuffer EXCEPT ![ch] = NoneAllData(@)]
    /\ channelsOperationsInfo' =
           [channelsOperationsInfo EXCEPT ![ch].receive =
               [k \in DOMAIN channelsOperationsInfo[ch].receive |-> 0]]
    /\ accepted' = [accepted EXCEPT ![ch] = NothingAccepted]
    /\ threads' = [threads EXCEPT ![ch].pc = "reconnect"]
    /\ lastOp' = [NoOp EXCEPT !.kind = "readfail", !.ch = PyStr(ch), !.result = "IOError"]
    /\ UNCHANGED <<instancesInfo, objs, threadsStarted, building, loggers,
                   framesRead, sendVars>>

\* one loop iteration in which the transport read raises an I/O error
ReadFail(ch) ==
    /\ Running(ch)
    /\ receivedMsgsBuffer' = [receivedMsgsBuffer EXCEPT ![ch] = NoneAllData(@)]
    /\ accepted' = [accepted EXCEPT ![ch] = NothingAccepted]
    /\ threads' = [threads EXCEPT ![ch].pc = "reconnect"]
    /\ lastOp' = [NoOp EXCEPT !.kind = "readfail", !.ch = PyStr(ch), !.result = "IOError"]
    /\ UNCHANGED <<instancesInfo, channelsOperationsInfo, objs, threadsStarted, building, loggers,
                   framesRead, sendVars>>

\* one loop iteration of a Serial receiver with an identifier header in which
\* the first line is shorter than declared and the readline() of the gathering
\* loop raises SerialException: __handle_received_msg catches it as Exception
\* and logs it, and central_receive goes on to its next iteration
GatherReadFail(ch) ==
    /\ Running(ch)
    /\ ProtocolOf(objs[threads[ch].self].cls) = "Serial"
    /\ objs[threads[ch].self].msgIDLength # 0
    /\ lastOp' = [NoOp EXCEPT !.kind = "readfail", !.ch = PyStr(ch),
                              !.result = "logged"]
    /\ UNCHANGED <<instancesInfo, channelsOperationsInfo, receivedMsgsBuffer, objs,
                   threads, threadsStarted, building, loggers, framesRead, accepted, sendVars>>

ReconnectNeverResumes(ch, fails) ==
    /\ ch \in DOMAIN threads
    /\ threads[ch].pc = "reconnect"
    /\ \E conn \in {TryToConnect(fails)} :
           /\ threads' = [threads EXCEPT ![ch].pc = IF conn.raised THEN "dead"
                                                    ELSE "reconnect"]
           /\ objs' = [objs EXCEPT ![threads[ch].self].isConnected = conn.connected,
                                   ![threads[ch].self].closed =
                                       objs[threads[ch].self].closed /\ ~conn.connected]
           /\ lastOp' = [NoOp EXCEPT !.kind = "reconnect", !.ch = PyStr(ch),
                                     !.fails = fails,
                                     !.result = IF conn.raised THEN "ConnectionError" ELSE "ok",
                                     !.attempts = conn.attempts, !.slept = conn.slept]
    /\ UNCHANGED <<instancesInfo, channelsOperationsInfo, receivedMsgsBuffer,
                   threadsStarted, building, loggers, framesRead, accepted, sendVars>>

ReconnectUnbounded(ch, fails) ==
    /\ ch \in DOMAIN threads
    /\ threads[ch].pc = "reconnect"
    /\ threads' = [threads EXCEPT ![ch].pc = "run"]
    /\ objs' = [objs EXCEPT ![threads[ch].self].isConnected = TRUE,
                            ![threads[ch].self].closed = FALSE]
    /\ lastOp' = [NoOp EXCEPT !.kind = "reconnect", !.ch = PyStr(ch),
                              !.fails = fails, !.result = "ok",
                              !.attempts = fails + 1, !.slept = 2 * fails]
    /\ UNCHANGED <<instancesInfo, channelsOperationsInfo, receivedMsgsBuffer,
                   threadsStarted, building, loggers, framesRead, accepted, sendVars>>

\* the _try_to_connect() call of the except branch; ConnectionError is caught
\* nowhere in central_receive and ends the thread
Reconnect(ch, fails) ==
    /\ ch \in DOMAIN threads
    /\ threads[ch].pc = "reconnect"
    /\ \E conn \in {TryToConnect(fails)} :
           /\ threads' = [threads EXCEPT ![ch].pc = IF conn.raised THEN "dead" ELSE "run"]
           /\ objs' = [objs EXCEPT ![threads[ch].self].isConnected = conn.connected,
                                   ![threads[ch].self].closed =
                                       objs[threads[ch].self].closed /\ ~conn.connected]
           /\ lastOp' = [NoOp EXCEPT !.kind = "reconnect", !.ch = PyStr(ch),
                                     !.fails = fails,
                                     !.result = IF conn.raised THEN "ConnectionError" ELSE "ok",
                                     !.attempts = conn.attempts, !.slept = conn.slept]
    /\ UNCHANGED <<instancesInfo, channelsOperationsInfo, receivedMsgsBuffer,
                   threadsStarted, building, loggers, framesRead, accepted, sendVars>>

\* the loop test of CANReceiver.central_receive finds __isRunning False
CANLoopExit(ch) ==
    /\ Running(ch)
    /\ ProtocolOf(objs[threads[ch].self].cls) = "CAN"
    /\ ~objs[threads[ch].self].isRunning
    /\ threads' = [threads EXCEPT ![ch].pc = "exited"]
    /\ lastOp' = [NoOp EXCEPT !.kind = "loop_exit", !.ch = PyStr(ch),
                              !.name = PyStr(threads[ch].self)]
    /\ UNCHANGED <<instancesInfo, channelsOperationsInfo, receivedMsgsBuffer, objs,
                   threadsStarted, building, loggers, framesRead, accepted, sendVars>>

\* the else branch of SerialReceiver.central_receive: serial_conn is not open
FoundDisconnected(ch) ==
    /\ Running(ch)
    /\ ProtocolOf(objs[threads[ch].self].cls) = "Serial"
    /\ ~objs[threads[ch].self].isConnected
    /\ receivedMsgsBuffer' = [receivedMsgsBuffer EXCEPT ![ch] = NoneAllData(@)]
    /\ accepted' = [accepted EXCEPT ![ch] = NothingAccepted]
    /\ threads' = [threads EXCEPT ![ch].pc = "reconnect"]
    /\ lastOp' = [NoOp EXCEPT !.kind = "readfail", !.ch = PyStr(ch),
                              !.result = "disconnected"]
    /\ UNCHANGED <<instancesInfo, channelsOperationsInfo, objs, threadsStarted, building, loggers,
                   framesRead, sendVars>>

-----------------------------------------------------------------------------
(* BaseDriver.stop and the disconnect() of the three transports, called on  *)
(* an object whose constructor returned.                                    *)

\* reg = [objs, inst]: the objects and instancesInfo
StopAndUnregister(reg, name) ==
    [objs |-> [reg.objs EXCEPT ![name].isRunning = FALSE],
     inst |-> [n \in DOMAIN reg.inst \ {name} |-> reg.inst[n]]]

StopEffect(reg, name) ==
    [objs |-> [reg.objs EXCEPT ![name].isRunning = FALSE],
     inst |-> [reg.inst EXCEPT ![name].running = FALSE]]

Stop(name) ==
    /\ name \in DOMAIN objs
    /\ objs[name].handle /\ objs[name].ctor = "done"
    /\ \E out \in {StopEffect([objs |-> objs, inst |-> instancesInfo], name)} :
           /\ objs' = out.objs
           /\ instancesInfo' = out.inst
    /\ lastOp' = [NoOp EXCEPT !.kind = "stop", !.name = PyStr(name),
                              !.cls = objs[name].cls, !.ch = PyStr(objs[name].channel),
                              !.id = objs[name].msgID, !.result = "ok"]
    /\ UNCHANGED <<channelsOperationsInfo, receivedMsgsBuffer, threads,
                   threadsStarted, building, loggers, framesRead, accepted, sendVars>>

\* the transport handle of the object is closed
Closed(self) ==
    IF ProtocolOf(self.cls) = "Serial" THEN ~self.isConnected ELSE self.closed

DisconnectStopsAgain(reg, name) ==
    LET self == reg.objs[name]
        closing == [reg EXCEPT !.objs[name].isConnected = FALSE]
    IN  IF ProtocolOf(self.cls) = "Serial"
        THEN StopEffect(closing, name)
        ELSE StopEffect([reg EXCEPT !.objs[name].closed = TRUE], name)

\* SerialBaseDriver.disconnect closes and stops when serial_conn is open;
\* CANBaseDriver.disconnect shuts the bus down and stops in any case, and so
\* does SPIBaseDriver.disconnect, whose self.spi object is always true
DisconnectEffect(reg, name) ==
    LET self == reg.objs[name]
    IN  IF ProtocolOf(self.cls) = "Serial"
        THEN IF self.isConnected
             THEN StopEffect([reg EXCEPT !.objs[name].isConnected = FALSE], name)
             ELSE reg
        ELSE StopEffect([reg EXCEPT !.objs[name].closed = TRUE], name)

Disconnect(name) ==
    /\ name \in DOMAIN objs
    /\ objs[name].handle /\ objs[name].ctor = "done"
    /\ \E out \in {DisconnectEffect([objs |-> objs, inst |-> instancesInfo], name)} :
           /\ objs' = out.objs
           /\ instancesInfo' = out.inst
    /\ lastOp' = [NoOp EXCEPT !.kind = "disconnect", !.name = PyStr(name),
                              !.cls = objs[name].cls, !.ch = PyStr(objs[name].channel),
                              !.id = objs[name].msgID, !.result = "ok",
                              !.again = Closed(objs[name])]
    /\ UNCHANGED <<channelsOperationsInfo, receivedMsgsBuffer, threads,
                   threadsStarted, building, loggers, framesRead, accepted, sendVars>>

-----------------------------------------------------------------------------
(* BaseDriver.receive with BaseDriver.__increment_msg_count, called on a    *)
(* receiver whose constructor returned.                                     *)

ReceiveAndClear(name) ==
    /\ name \in DOMAIN objs
    /\ objs[name].handle
    /\ objs[name].ctor = "done"
    /\ OperationOf(objs[name].cls) = "receive"
    /\ LET self == objs[name]
           msg == receivedMsgsBuffer[self.channel][self.msgID]
       IN  /\ receivedMsgsBuffer' =
                  [receivedMsgsBuffer EXCEPT ![self.channel][self.msgID] = PyNone]
           /\ lastOp' = [NoOp EXCEPT !.kind = "receive", !.name = PyStr(name),
                                     !.ch = PyStr(self.channel), !.id = self.msgID,
                                     !.data = msg, !.result = "ok",
                                     !.again = (lastOp.kind = "receive"
                                                /\ lastOp.name = PyStr(name))]
    /\ UNCHANGED <<instancesInfo, objs, channelsOperationsInfo, threads,
                   threadsStarted, building, loggers, framesRead, accepted, sendVars>>

Receive(name) ==
    /\ name \in DOMAIN objs
    /\ objs[name].handle
    /\ objs[name].ctor = "done"
    /\ OperationOf(objs[name].cls) = "receive"
    /\ LET self == objs[name]
           msg == receivedMsgsBuffer[self.channel][self.msgID]
           count == channelsOperationsInfo[self.channel]["receive"][self.msgID]
       IN  /\ objs' = [objs EXCEPT ![name].numOfMsgs = count]
           /\ instancesInfo' = [instancesInfo EXCEPT ![name].numOfMsgs = count]
           /\ lastOp' = [NoOp EXCEPT !.kind = "receive", !.name = PyStr(name),
                                     !.ch = PyStr(self.channel), !.id = self.msgID,
                                     !.data = msg, !.result = "ok",
                                     \* the call before this one, when nothing ran between
                                     !.again = (lastOp.kind = "receive"
                                                /\ lastOp.name = PyStr(name))]
    /\ UNCHANGED <<channelsOperationsInfo, receivedMsgsBuffer, threads,
                   threadsStarted, building, loggers, framesRead, accepted, sendVars>>

-----------------------------------------------------------------------------
(* BaseDriver.send and the threaded_send workers of the senders.  A call    *)
(* of send() by caller thread t goes through: the test of                   *)
(* __pending_message, its assignment and the start of the worker thread,    *)
(* the iterations of the worker's loop, and the join with the return.       *)

Callers == {1, 2}
MaxSends == 2
MaxIterations == 3
WriteTime == 1

Msgs == {PyBytes(<<42>>), PyBytes(<<7>>), PyStr("x")}
SendFails == {0, 1, max_retries}

\* nothing written: the bytes handed to write(), the sender and its payload
NoWrite == [bytes |-> <<>>, name |-> "", msg |-> PyNone]

NoCall == [pc |-> "idle", name |-> "", msg |-> PyNone, status |-> <<>>,
           worker |-> "none", elapsed |-> 0, writes |-> 0, iters |-> 0, made |-> 0,
           read |-> 0]

\* the workers of a sender that have been started and have not ended
InFlight(name) ==
    {t \in Callers : calls[t].name = name /\ calls[t].pc = "working"
                                          /\ calls[t].worker = "loop"}

\* SerialBaseDriver.clean_buffer, send side
SerialCleanBufferSend(info) ==
    IF info.sentInBuffer >= SERIALBUFFER
    THEN [info EXCEPT !.sentInBuffer = 0] ELSE info

\* int.to_bytes(length, 'little') succeeds
Representable(v, length) == v >= 0 /\ v < 256 ^ length

SerialFrameNoLength(self, data) ==
    IF self.msgIDLength = 0 THEN [raised |-> FALSE, bytes |-> data \o <<10>>]
    ELSE IF self.msgID = PyNone THEN [raised |-> TRUE, bytes |-> <<>>]
    ELSE IF ~Representable(self.msgID.n, self.msgIDLength) \/ ~Representable(Len(data), 1)
    THEN [raised |-> TRUE, bytes |-> <<>>]
    ELSE [raised |-> FALSE,
          bytes |-> ToBytesLittle(self.msgID.n, self.msgIDLength) \o data \o <<10>>]

SerialFrameTruncatesLength(self, data) ==
    IF self.msgIDLength = 0 THEN [raised |-> FALSE, bytes |-> SerialWire(0, 0, data)]
    ELSE IF self.msgID = PyNone THEN [raised |-> TRUE, bytes |-> <<>>]
    ELSE IF ~Representable(self.msgID.n, self.msgIDLength)
    THEN [raised |-> TRUE, bytes |-> <<>>]
    ELSE [raised |-> FALSE,
          bytes |-> ToBytesLittle(self.msgID.n, self.msgIDLength)
                        \o <<Len(data) % 256>> \o data \o <<10>>]

\* the payload expression of SerialSender.threaded_send: to_bytes raises
\* OverflowError for a value that does not fit, None has no to_bytes
SerialFrame(self, data) ==
    IF self.msgIDLength = 0 THEN [raised |-> FALSE, bytes |-> SerialWire(0, 0, data)]
    ELSE IF self.msgID = PyNone THEN [raised |-> TRUE, bytes |-> <<>>]
    ELSE IF ~Representable(self.msgID.n, self.msgIDLength) \/ ~Representable(Len(data), 1)
    THEN [raised |-> TRUE, bytes |-> <<>>]
    ELSE [raised |-> FALSE, bytes |-> SerialWire(self.msgIDLength, self.msgID.n, data)]

\* BaseDriver.__increment_msg_count of a sender, on the maps
\* reg = [info, objs, inst] (channelsOperationsInfo, objs, instancesInfo)
IncrementMsgCount(reg, name) ==
    LET self == reg.objs[name]
    IN  [info |-> [reg.info EXCEPT ![self.channel].send[self.msgID] = @ + 1],
         objs |-> [reg.objs EXCEPT ![name].numOfMsgs = @ + 1],
         inst |-> [reg.inst EXCEPT ![name].numOfMsgs = self.numOfMsgs + 1]]

\* one iteration of the loop of SerialSender.threaded_send
SerialThreadedSend(reg, name, data, writeOk, conn) ==
    LET self == reg.objs[name]
        frame == SerialFrame(self, data)
        cleaned == [reg EXCEPT !.info[self.channel] = SerialCleanBufferSend(@)]
        reconnected(r, dt) ==
            [reg |-> [r EXCEPT !.objs[name].isConnected = conn.connected],
             outcome |-> IF conn.raised THEN "died" ELSE "retry",
             wrote |-> <<>>, onWire |-> FALSE, dt |-> dt + conn.slept]
    IN  IF ~self.isConnected THEN reconnected(reg, 0)
        ELSE IF frame.raised THEN reconnected(reg, 0)
        ELSE IF ~writeOk THEN reconnected(cleaned, WriteTime)
        ELSE [reg |-> [cleaned EXCEPT !.info[self.channel].sentInBuffer =
                                          @ + Len(frame.bytes)],
              outcome |-> "sent", wrote |-> frame.bytes, onWire |-> TRUE,
              dt |-> WriteTime]

\* one iteration of the loop of CANSender.threaded_send
CANThreadedSend(reg, name, data, writeOk, conn) ==
    LET self == reg.objs[name]
    IN  IF self.msgID = PyNone \/ ~writeOk
        THEN [reg |-> [reg EXCEPT !.objs[name].isConnected = conn.connected],
              outcome |-> IF conn.raised THEN "died" ELSE "retry",
              wrote |-> <<>>, onWire |-> FALSE, dt |-> WriteTime + conn.slept]
        ELSE [reg |-> IncrementMsgCount(
                          [reg EXCEPT !.info[self.channel].sentInBuffer = @ + Len(data)],
                          name),
              outcome |-> "sent", wrote |-> data, onWire |-> TRUE, dt |-> WriteTime]

\* SPIBaseDriver.clean_buffer, send side
SPICleanBufferSend(info) ==
    IF info.sentInBuffer >= SPIBUFFER THEN [info EXCEPT !.sentInBuffer = 0] ELSE info

\* the payload SPISender.threaded_send builds before its loop
SPIPayload(self, data) ==
    (IF self.msgLenLength > 0 THEN ToBytesBig(Len(data), self.msgLenLength) ELSE <<>>)
    \o (IF self.msgIDLength > 0 THEN ToBytesBig(self.msgID.n, self.msgIDLength) ELSE <<>>)
    \o data

\* one iteration of the loop of SPISender.threaded_send.  Written inside the
\* class SPISender, self.__increment_msg_count() is the attribute
\* _SPISender__increment_msg_count, which no class defines: after a transfer
\* that succeeded the call raises AttributeError, and the except branch
\* closes the device, reconnects and lets the loop go on
SPIThreadedSend(reg, name, data, writeOk, conn) ==
    LET self == reg.objs[name]
        payload == SPIPayload(self, data)
        cleaned == [reg EXCEPT !.info[self.channel] = SPICleanBufferSend(@)]
        counted == IF writeOk
                   THEN [cleaned EXCEPT !.info[self.channel].sentInBuffer =
                                            @ + Len(payload)]
                   ELSE cleaned
    IN  [reg |-> [counted EXCEPT !.objs[name].isConnected = conn.connected],
         outcome |-> IF conn.raised THEN "died" ELSE "retry",
         wrote |-> IF writeOk THEN payload ELSE <<>>, onWire |-> writeOk,
         dt |-> WriteTime + conn.slept]

\* building the payload raises: to_bytes of a value that does not fit
\* (OverflowError) or of None (AttributeError)
SPIPayloadRaises(self, data) ==
    \/ self.msgLenLength > 0 /\ ~Representable(Len(data), self.msgLenLength)
    \/ self.msgIDLength > 0 /\ (\/ self.msgID = PyNone
                                \/ ~Representable(self.msgID.n, self.msgIDLength))

ThreadedSend(reg, name, data, writeOk, conn) ==
    IF ProtocolOf(reg.objs[name].cls) = "Serial"
    THEN SerialThreadedSend(reg, name, data, writeOk, conn)
    ELSE IF ProtocolOf(reg.objs[name].cls) = "CAN"
    THEN CANThreadedSend(reg, name, data, writeOk, conn)
    ELSE SPIThreadedSend(reg, name, data, writeOk, conn)

\* send(): statusContainer = [] and the test `self.__pending_message is None`;
\* when the test fails the function ends without a return statement
SendCheckPending(t, name, msg) ==
    /\ calls[t].pc = "idle"
    /\ calls[t].made < MaxSends
    /\ name \in DOMAIN objs
    /\ objs[name].handle /\ objs[name].ctor = "done"
    /\ OperationOf(objs[name].cls) = "send"
    /\ IF objs[name].pending_message = PyNone
       THEN /\ calls' = [calls EXCEPT ![t] = [NoCall EXCEPT !.pc = "checked",
                                                           !.name = name, !.msg = msg,
                                                           !.made = calls[t].made + 1]]
            /\ lastOp' = [NoOp EXCEPT !.kind = "send_check", !.name = PyStr(name),
                                      !.msg = msg, !.caller = t]
       ELSE /\ calls' = [calls EXCEPT ![t] = [NoCall EXCEPT !.made = calls[t].made + 1]]
            /\ lastOp' = [NoOp EXCEPT !.kind = "send", !.name = PyStr(name),
                                      !.msg = msg, !.caller = t, !.result = "rejected",
                                      !.ret = PyNone]
    /\ UNCHANGED <<instancesInfo, channelsOperationsInfo, receivedMsgsBuffer, objs,
                   threads, threadsStarted, building, loggers, framesRead, accepted, succeeded, written>>

\* send(): self.__pending_message = msg, Thread(...).start(); the worker
\* enters threaded_send, whose isinstance test raises TypeError in the worker;
\* the SPI worker builds its payload before the loop
SendStartWorker(t) ==
    /\ calls[t].pc = "checked"
    /\ objs' = [objs EXCEPT ![calls[t].name].pending_message = calls[t].msg]
    /\ calls' = [calls EXCEPT ![t].pc = "working",
                              ![t].worker =
                                  IF calls[t].msg.ty # "bytes" THEN "died"
                                  ELSE IF /\ ProtocolOf(objs[calls[t].name].cls) = "SPI"
                                          /\ SPIPayloadRaises(objs[calls[t].name],
                                                              calls[t].msg.b)
                                  THEN "died" ELSE "loop"]
    /\ lastOp' = [NoOp EXCEPT !.kind = "send_start", !.name = PyStr(calls[t].name),
                              !.msg = calls[t].msg, !.caller = t]
    /\ UNCHANGED <<instancesInfo, channelsOperationsInfo, receivedMsgsBuffer,
                   threads, threadsStarted, building, loggers, framesRead, accepted, succeeded, written>>

\* the worker: the loop test of threaded_send and one iteration of its body
SendIteration(t, writeOk, fails) ==
    /\ calls[t].pc = "working"
    /\ calls[t].worker = "loop"
    /\ LET c == calls[t]
           self == objs[c.name]
           op0 == [NoOp EXCEPT !.name = PyStr(c.name), !.cls = self.cls,
                               !.ch = PyStr(self.channel), !.id = self.msgID,
                               !.msg = c.msg, !.caller = t]
       IN  IF c.elapsed >= self.timeout
           THEN /\ calls' = [calls EXCEPT ![t].worker = "returned", ![t].status = <<1>>]
                /\ lastOp' = [op0 EXCEPT !.kind = "send_timeout", !.elapsed = c.elapsed]
                /\ UNCHANGED <<instancesInfo, channelsOperationsInfo, objs, written>>
           ELSE /\ c.iters < MaxIterations
                /\ \E out \in {ThreadedSend([info |-> channelsOperationsInfo,
                                              objs |-> objs, inst |-> instancesInfo],
                                             c.name, c.msg.b, writeOk,
                                             TryToConnect(fails))} :
                       /\ channelsOperationsInfo' = out.reg.info
                       /\ objs' = out.reg.objs
                       /\ instancesInfo' = out.reg.inst
                       /\ written' = IF out.onWire
                                     THEN [written EXCEPT ![self.channel] =
                                               [bytes |-> out.wrote, name |-> c.name,
                                                msg |-> c.msg]]
                                     ELSE written
                       /\ calls' = [calls EXCEPT
                              ![t].elapsed = c.elapsed + out.dt,
                              ![t].iters = c.iters + 1,
                              ![t].writes = c.writes + IF out.onWire THEN 1 ELSE 0,
                              ![t].status = IF out.outcome = "sent" THEN <<0>> ELSE <<>>,
                              ![t].worker = IF out.outcome = "sent" THEN "returned"
                                            ELSE IF out.outcome = "died" THEN "died"
                                            ELSE "loop"]
                       /\ lastOp' = [op0 EXCEPT
                              !.kind = IF out.outcome = "sent" THEN "write" ELSE "write_failed",
                              !.data = PyBytes(out.wrote),
                              !.fails = fails,
                              !.result = out.outcome,
                              !.elapsed = c.elapsed + out.dt]
    /\ UNCHANGED <<receivedMsgsBuffer, threads, threadsStarted, building, loggers, framesRead,
                   accepted, succeeded>>

SendJoinNoFinally(t) ==
    /\ calls[t].pc = "working"
    /\ calls[t].worker \in {"returned", "died"}
    /\ LET c == calls[t]
           reg0 == [info |-> channelsOperationsInfo, objs |-> objs,
                    inst |-> instancesInfo]
           ret == IF c.status = <<>> THEN 1 ELSE c.status[1]
           reg1 == IF c.status # <<>> /\ c.status[1] = 0
                   THEN IncrementMsgCount(reg0, c.name) ELSE reg0
       IN  /\ channelsOperationsInfo' = reg1.info
           /\ instancesInfo' = reg1.inst
           /\ objs' = IF c.status = <<>> THEN reg1.objs
                     ELSE [reg1.objs EXCEPT ![c.name].pending_message = PyNone]
           /\ succeeded' = [succeeded EXCEPT ![c.name] = @ + IF ret = 0 THEN 1 ELSE 0]
           /\ calls' = [calls EXCEPT ![t] = [NoCall EXCEPT !.made = c.made]]
           /\ lastOp' = [NoOp EXCEPT !.kind = "send", !.name = PyStr(c.name),
                                     !.cls = objs[c.name].cls,
                                     !.msg = c.msg, !.caller = t,
                                     !.result = IF c.status = <<>> THEN "IndexError"
                                                ELSE "returned",
                                     !.ret = PyInt(ret), !.elapsed = c.elapsed,
                                     !.attempts = c.writes]
    /\ UNCHANGED <<receivedMsgsBuffer, threads, threadsStarted, building, loggers, framesRead,
                   accepted, written>>

\* send(): th.join(), the statusContainer[0] test with __increment_msg_count,
\* the return, the except branch (IndexError when the worker died) and finally
SendJoin(t) ==
    /\ calls[t].pc = "working"
    /\ calls[t].worker \in {"returned", "died"}
    /\ LET c == calls[t]
           reg0 == [info |-> channelsOperationsInfo, objs |-> objs,
                    inst |-> instancesInfo]
           ret == IF c.status = <<>> THEN 1 ELSE c.status[1]
           reg1 == IF c.status # <<>> /\ c.status[1] = 0
                   THEN IncrementMsgCount(reg0, c.name) ELSE reg0
       IN  /\ channelsOperationsInfo' = reg1.info
           /\ instancesInfo' = reg1.inst
           /\ objs' = [reg1.objs EXCEPT ![c.name].pending_message = PyNone]
           /\ succeeded' = [succeeded EXCEPT ![c.name] = @ + IF ret = 0 THEN 1 ELSE 0]
           /\ calls' = [calls EXCEPT ![t] = [NoCall EXCEPT !.made = c.made]]
           /\ lastOp' = [NoOp EXCEPT !.kind = "send", !.name = PyStr(c.name),
                                     !.cls = objs[c.name].cls,
                                     !.msg = c.msg, !.caller = t,
                                     !.result = IF c.status = <<>> THEN "IndexError"
                                                ELSE "returned",
                                     !.ret = PyInt(ret), !.elapsed = c.elapsed,
                                     !.attempts = c.writes]
    /\ UNCHANGED <<receivedMsgsBuffer, threads, threadsStarted, building, loggers, framesRead,
                   accepted, written>>

\* The statement `channelsOperationsInfo[channel]["sentInBuffer"] += len(payload)`
\* of SerialSender.threaded_send is a read of the counter, a call of len() and
\* a store of the sum, and nothing orders the worker threads of two senders of
\* one channel.  SendWriteRead is the iteration up to the read, SendAddStore
\* the store and the return.
SendWriteRead(t) ==
    /\ calls[t].pc = "working"
    /\ calls[t].worker = "loop"
    /\ LET c == calls[t]
           self == objs[c.name]
           frame == SerialFrame(self, c.msg.b)
           cleaned == SerialCleanBufferSend(channelsOperationsInfo[self.channel])
       IN  /\ ProtocolOf(self.cls) = "Serial"
           /\ c.elapsed < self.timeout
           /\ self.isConnected
           /\ ~frame.raised
           /\ channelsOperationsInfo' =
                  [channelsOperationsInfo EXCEPT ![self.channel] = cleaned]
           /\ written' = [written EXCEPT ![self.channel] =
                              [bytes |-> frame.bytes, name |-> c.name, msg |-> c.msg]]
           /\ calls' = [calls EXCEPT ![t].worker = "adding",
                                     ![t].read = cleaned.sentInBuffer,
                                     ![t].elapsed = c.elapsed + WriteTime,
                                     ![t].iters = c.iters + 1]
           /\ lastOp' = [NoOp EXCEPT !.kind = "write_read", !.name = PyStr(c.name),
                                     !.cls = self.cls, !.ch = PyStr(self.channel),
                                     !.id = self.msgID, !.msg = c.msg, !.caller = t,
                                     !.data = PyBytes(frame.bytes)]
    /\ UNCHANGED <<instancesInfo, receivedMsgsBuffer, objs, threads, threadsStarted, building, loggers,
                   framesRead, accepted, succeeded>>

SendAddStore(t) ==
    /\ calls[t].pc = "working"
    /\ calls[t].worker = "adding"
    /\ LET c == calls[t]
           self == objs[c.name]
           frame == SerialFrame(self, c.msg.b)
       IN  /\ channelsOperationsInfo' =
                  [channelsOperationsInfo EXCEPT ![self.channel].sentInBuffer =
                                                     c.read + Len(frame.bytes)]
           /\ calls' = [calls EXCEPT ![t].worker = "returned", ![t].status = <<0>>,
                                     ![t].writes = c.writes + 1]
           /\ lastOp' = [NoOp EXCEPT !.kind = "write", !.name = PyStr(c.name),
                                     !.cls = self.cls, !.ch = PyStr(self.channel),
                                     !.id = self.msgID, !.msg = c.msg, !.caller = t,
                                     !.data = PyBytes(frame.bytes), !.result = "sent",
                                     !.elapsed = c.elapsed]
    /\ UNCHANGED <<instancesInfo, receivedMsgsBuffer, objs, threads, threadsStarted, building, loggers,
                   framesRead, accepted, succeeded, written>>

\* a sender that passes validation on a transport that connects at once
SendTimeouts == {PyInt(2), PyInt(183)}

ConstructSender(timeouts, idLens) ==
    \E cls \in {"SerialSender", "CANSender"}, msgName \in Names, msgID \in MsgIDs,
       timeout \in timeouts :
        \E channel \in ChannelsOf(cls),
           idLen \in (IF ProtocolOf(cls) = "CAN" THEN {0} ELSE idLens) :
            /\ NoConstructorRunning
            /\ \A t \in Callers : calls[t].pc = "idle"
            /\ Validate(msgName, PyStr("send"), channel, msgID, timeout) = "ok"
            /\ Construct(cls, msgName, channel, msgID, idLen, 0, timeout, 0)
            /\ UNCHANGED <<accepted, sendVars, building, loggers>>

\* An SPISender whose constructor returns: log_instance_created() formats
\* self.baudrate, so the object is of a subclass of SPISender that defines
\* the attribute (class S(SPISender): baudrate = 500000).  The transport
\* connects at once and a sender starts no dispatcher thread.
ConstructSPISender ==
    \E msgName \in Names, channel \in SPIChannels, msgID \in MsgIDs,
       idLen \in {1}, lenLen \in {0, 1}, timeout \in {PyInt(2)} :
        /\ NoConstructorRunning
        /\ \A t \in Callers : calls[t].pc = "idle"
        /\ Validate(msgName, PyStr("send"), channel, msgID, timeout) = "ok"
        /\ instancesInfo' = StoreInstance(msgName.s, "SPISender", channel.s, msgID)
        /\ channelsOperationsInfo' = StoreChannel("SPISender", channel.s, msgID)
        /\ objs' = (msgName.s :> [cls |-> "SPISender", channel |-> channel.s,
                                  msgID |-> msgID, msgIDLength |-> idLen,
                                  msgLenLength |-> lenLen, isRunning |-> TRUE,
                                  isConnected |-> TRUE, numOfMsgs |-> 0,
                                  handle |-> TRUE, closed |-> FALSE,
                                  timeout |-> timeout.n,
                                  pending_message |-> PyNone, ctor |-> "done"]) @@ objs
        /\ lastOp' = [NoOp EXCEPT !.kind = "construct", !.cls = "SPISender",
                                  !.name = msgName, !.ch = channel, !.id = msgID,
                                  !.timeout = timeout, !.result = "ok", !.attempts = 1]
        /\ UNCHANGED <<receivedMsgsBuffer, threads, threadsStarted, framesRead,
                       accepted, sendVars, building, loggers>>

-----------------------------------------------------------------------------
(* Constructions made by several threads at a time.  BaseDriver.__init__    *)
(* runs the setters, which read the registry, then _try_to_connect(), which *)
(* takes the time of the connect() calls, then __store_info(), which writes *)
(* the registry; no lock is held from the first to the last.                *)

Builders == {1, 2}

NoBuild == [pc |-> "idle", cls |-> "", name |-> PyNone, ch |-> PyNone, id |-> PyNone]

\* thread t: the setters of BaseDriver.__init__, up to the connect() call
BeginConstruct(t, cls, msgName, channel, msgID) ==
    /\ building[t].pc = "idle"
    /\ \E valid \in {Validate(msgName, PyStr(OperationOf(cls)), channel, msgID, PyInt(5))} :
           /\ building' = IF valid = "ok"
                          THEN [building EXCEPT ![t] =
                                   [pc |-> "connecting", cls |-> cls, name |-> msgName,
                                    ch |-> channel, id |-> msgID]]
                          ELSE building
           /\ lastOp' = [NoOp EXCEPT !.kind = "construct_begin", !.cls = cls,
                                     !.name = msgName, !.ch = channel, !.id = msgID,
                                     !.caller = t, !.result = valid]
    /\ UNCHANGED <<instancesInfo, channelsOperationsInfo, receivedMsgsBuffer, objs,
                   threads, threadsStarted, loggers, framesRead, accepted, sendVars>>

\* thread t: connect() succeeded; __store_info(), _set_central_receiver() of
\* a sender, log_instance_created() and the return of the object
FinishConstruct(t) ==
    /\ building[t].pc = "connecting"
    /\ LET b == building[t]
           name == b.name.s
       IN  /\ instancesInfo' = StoreInstance(name, b.cls, b.ch.s, b.id)
           /\ channelsOperationsInfo' = StoreChannel(b.cls, b.ch.s, b.id)
           /\ objs' = (name :> [cls |-> b.cls, channel |-> b.ch.s, msgID |-> b.id,
                                msgIDLength |-> IF ProtocolOf(b.cls) = "CAN" THEN 0 ELSE 1,
                                msgLenLength |-> 0, isRunning |-> TRUE,
                                isConnected |-> TRUE, numOfMsgs |-> 0, handle |-> TRUE,
                                closed |-> FALSE, timeout |-> 5,
                                pending_message |-> PyNone, ctor |-> "done"]) @@ objs
           /\ building' = [building EXCEPT ![t].pc = "done"]
           /\ lastOp' = [NoOp EXCEPT !.kind = "construct_end", !.cls = b.cls,
                                     !.name = b.name, !.ch = b.ch, !.id = b.id,
                                     !.caller = t, !.result = "ok", !.attempts = 1]
    /\ UNCHANGED <<receivedMsgsBuffer, threads, threadsStarted, loggers, framesRead,
                   accepted, sendVars>>

-----------------------------------------------------------------------------

Init ==
    /\ instancesInfo = EmptyDict
    /\ channelsOperationsInfo = EmptyDict
    /\ receivedMsgsBuffer = EmptyDict
    /\ objs = EmptyDict
    /\ threads = EmptyDict
    /\ threadsStarted = [c \in {x.s : x \in Channels} |-> 0]
    /\ framesRead = 0
    /\ accepted = [c \in {x.s : x \in Channels} |-> NothingAccepted]
    /\ calls = [t \in Callers |-> NoCall]
    /\ succeeded = [n \in {x.s : x \in Names} |-> 0]
    /\ written = [c \in {x.s : x \in Channels} |-> NoWrite]
    /\ loggers = EmptyDict
    /\ building = [t \in Builders |-> NoBuild]
    /\ lastOp = NoOp

\* the registry under construction of drivers of every class
Next ==
    \/ ConstructDriver
    \/ \E name \in DOMAIN objs : SetCentralReceiverTail(name)

Spec == Init /\ [][Next]_vars

NextNames ==
    \/ ConstructAnyName
    \/ \E name \in DOMAIN objs : SetCentralReceiverTail(name)

SpecNames == Init /\ [][NextNames]_vars

\* two threads that each construct one sender
NextConcurrent ==
    \/ \E t \in Builders, cls \in {"SerialSender", "CANSender"}, msgName \in Names,
          msgID \in MsgIDs :
           \E channel \in ChannelsOf(cls) : BeginConstruct(t, cls, msgName, channel, msgID)
    \/ \E t \in Builders : FinishConstruct(t)

SpecConcurrent == Init /\ [][NextConcurrent]_vars

\* a Serial or CAN driver on a transport that connects at once
ConstructStoppable ==
    \E cls \in {"SerialReceiver", "CANSender", "CANReceiver"},
       msgName \in Names, msgID \in {PyInt(16), PyInt(17)} :
        \E channel \in ChannelsOf(cls) :
            /\ NoConstructorRunning
            /\ Construct(cls, msgName, channel, msgID,
                         IF ProtocolOf(cls) = "CAN" THEN 0 ELSE 1, 0, PyInt(5), 0)
            /\ UNCHANGED <<accepted, sendVars, building, loggers>>

\* drivers that are stopped and disconnected while the dispatchers run
NextStop ==
    \/ ConstructStoppable
    \/ \E name \in DOMAIN objs : SetCentralReceiverTail(name)
    \/ NoConstructorRunning /\ \E name \in DOMAIN objs : Stop(name)
    \/ NoConstructorRunning /\ \E name \in DOMAIN objs : Disconnect(name)
    \/ NoConstructorRunning /\ \E ch \in DOMAIN threads : DispatchFrame(ch, 16, <<42>>)
    \/ NoConstructorRunning /\ \E ch \in DOMAIN threads : CANLoopExit(ch)
    \/ NoConstructorRunning /\ \E ch \in DOMAIN threads : FoundDisconnected(ch)
    \* also the read of a bus that disconnect() has shut down
    \/ NoConstructorRunning /\ \E ch \in DOMAIN threads : ReadFail(ch)
    \/ NoConstructorRunning /\ \E ch \in DOMAIN threads, fails \in {0, max_retries} :
                                   Reconnect(ch, fails)

SpecStop == Init /\ [][NextStop]_vars

\* the registry under constructions with arguments of any type
NextValidate ==
    \/ ConstructAnyArguments
    \/ \E name \in DOMAIN objs : SetCentralReceiverTail(name)

SpecValidate == Init /\ [][NextValidate]_vars

(* A serial line looped back: what a SerialSender writes on a channel is    *)
(* what the central_receive thread of the channel reads.                    *)

\* the longest frame of RoundTripMsgs has two identifier bytes, the length
\* byte, ten payload bytes and the terminator
MaxCut == 13

RoundTripIDs == {PyInt(10), PyInt(16), PyInt(266), PyInt(300)}
RoundTripMsgs == {PyBytes(<<42>>), PyBytes(<<>>), PyBytes(<<7, 10, 8>>),
                  PyBytes(<<1, 2, 3, 4, 5, 6, 7, 8, 9, 11>>)}

\* the number of readline() results the gathering loop takes
RECURSIVE SerialGatherCount(_, _, _)
SerialGatherCount(len, msg_length, more) ==
    IF len < msg_length + 1 /\ more # <<>>
    THEN 1 + SerialGatherCount(len + Len(Head(more)), msg_length, Tail(more))
    ELSE 0

\* the number of readline() results one loop iteration of central_receive takes
SerialConsumed(self, lines) ==
    LET read == Head(lines)
        N == self.msgIDLength
    IN  IF N = 0 THEN 1
        ELSE 1 + SerialGatherCount(Len(Slice(read, N + 1, Len(read))),
                                   FromBytesLittle(Slice(read, N, N + 1)), Tail(lines))

\* the loop iterations of SerialReceiver.central_receive that read the lines
RECURSIVE SerialDrain(_, _, _, _)
SerialDrain(self, lines, buf, info) ==
    IF lines = <<>> THEN [buf |-> buf, info |-> info]
    ELSE LET out == SerialHandle(self, lines, buf, info)
             n == SerialConsumed(self, lines)
         IN  SerialDrain(self, SubSeq(lines, n + 1, Len(lines)), out.buf, out.info)

\* the dispatcher of a serial channel reads what was written on the channel
DispatchWritten(ch) ==
    /\ Running(ch)
    /\ framesRead < MaxFrames
    /\ ProtocolOf(objs[threads[ch].self].cls) = "Serial"
    /\ written[ch] # NoWrite
    /\ \E out \in {SerialDrain(objs[threads[ch].self], ReadLines(written[ch].bytes),
                                receivedMsgsBuffer[ch], channelsOperationsInfo[ch])} :
           /\ receivedMsgsBuffer' = [receivedMsgsBuffer EXCEPT ![ch] = out.buf]
           /\ channelsOperationsInfo' = [channelsOperationsInfo EXCEPT ![ch] = out.info]
           /\ accepted' = [accepted EXCEPT ![ch] =
                               Accept(@, channelsOperationsInfo[ch].receive, out)]
    /\ written' = [written EXCEPT ![ch] = NoWrite]
    /\ framesRead' = framesRead + 1
    /\ lastOp' = [NoOp EXCEPT !.kind = "loopback", !.ch = PyStr(ch),
                              !.name = PyStr(written[ch].name),
                              !.id = objs[written[ch].name].msgID,
                              !.msg = written[ch].msg,
                              !.data = PyBytes(written[ch].bytes), !.result = "ok"]
    /\ UNCHANGED <<instancesInfo, objs, threads, threadsStarted, building, loggers, calls, succeeded>>

\* the line delivers only the first bytes of what was written and the next
\* readline() runs into its timeout and returns b''
DispatchTruncated(ch, cut) ==
    /\ Running(ch)
    /\ framesRead < MaxFrames
    /\ ProtocolOf(objs[threads[ch].self].cls) = "Serial"
    /\ objs[threads[ch].self].msgIDLength # 0
    /\ written[ch] # NoWrite
    /\ cut \in 1..(Len(written[ch].bytes) - 1)
    /\ \E out \in {SerialDrain(objs[threads[ch].self],
                                ReadLines(SubSeq(written[ch].bytes, 1, cut)),
                                receivedMsgsBuffer[ch], channelsOperationsInfo[ch])} :
           /\ receivedMsgsBuffer' = [receivedMsgsBuffer EXCEPT ![ch] = out.buf]
           /\ channelsOperationsInfo' = [channelsOperationsInfo EXCEPT ![ch] = out.info]
           /\ accepted' = [accepted EXCEPT ![ch] =
                               Accept(@, channelsOperationsInfo[ch].receive, out)]
    /\ written' = [written EXCEPT ![ch] = NoWrite]
    /\ framesRead' = framesRead + 1
    /\ lastOp' = [NoOp EXCEPT !.kind = "truncated", !.ch = PyStr(ch),
                              !.name = PyStr(written[ch].name),
                              !.id = objs[written[ch].name].msgID,
                              !.msg = written[ch].msg,
                              !.data = PyBytes(SubSeq(written[ch].bytes, 1, cut)),
                              !.result = "ok"]
    /\ UNCHANGED <<instancesInfo, objs, threads, threadsStarted, building, loggers, calls, succeeded>>

\* the two ends of the line: sender "a" and receiver "b"
ConstructLoopback ==
    \E cls \in {"SerialSender", "SerialReceiver"}, msgID \in RoundTripIDs,
       idLen \in {1, 2} :
        \E msgName \in {IF cls = "SerialSender" THEN PyStr("a") ELSE PyStr("b")},
           channel \in ChannelsOf(cls) :
            /\ NoConstructorRunning
            /\ \A t \in Callers : calls[t].pc = "idle"
            /\ Validate(msgName, PyStr(OperationOf(cls)), channel, msgID, PyInt(2)) = "ok"
            /\ Construct(cls, msgName, channel, msgID, idLen, 0, PyInt(2), 0)
            /\ UNCHANGED <<accepted, sendVars, building, loggers>>

NextRoundTrip ==
    \/ ConstructLoopback
    \/ \E name \in DOMAIN objs : SetCentralReceiverTail(name)
    \/ NoConstructorRunning /\ \E name \in DOMAIN objs, msg \in RoundTripMsgs :
                                   SendCheckPending(1, name, msg)
    \/ NoConstructorRunning /\ SendStartWorker(1)
    \/ NoConstructorRunning /\ \E writeOk \in BOOLEAN : SendIteration(1, writeOk, 0)
    \/ NoConstructorRunning /\ SendJoin(1)
    \/ NoConstructorRunning /\ \E ch \in DOMAIN threads : DispatchWritten(ch)
    \/ NoConstructorRunning /\ \E ch \in DOMAIN threads, cut \in 1..MaxCut :
                                   DispatchTruncated(ch, cut)

SpecRoundTrip == Init /\ [][NextRoundTrip]_vars

\* senders and one thread that calls send() on them, one call after the other
NextSend ==
    \/ ConstructSender(SendTimeouts, {0, 1, 2})
    \/ \E name \in DOMAIN objs, msg \in Msgs : SendCheckPending(1, name, msg)
    \/ SendStartWorker(1)
    \/ \E writeOk \in BOOLEAN, fails \in SendFails : SendIteration(1, writeOk, fails)
    \/ SendJoin(1)

SpecSend == Init /\ [][NextSend]_vars

\* senders of the three transports, of timeout 2, and one thread that calls
\* send() on them
NextSendOnce ==
    \/ ConstructSender({PyInt(2)}, {1})
    \/ ConstructSPISender
    \/ \E name \in DOMAIN objs, msg \in Msgs : SendCheckPending(1, name, msg)
    \/ SendStartWorker(1)
    \/ \E writeOk \in BOOLEAN, fails \in {0, max_retries} :
           SendIteration(1, writeOk, fails)
    \/ SendJoin(1)

SpecSendOnce == Init /\ [][NextSendOnce]_vars

\* Serial senders of timeout 2, with and without an identifier header, and
\* one thread that sends a payload of one byte or of LongLen bytes
LongLen == 256
LongPayload == [i \in 1..LongLen |-> 0]

ConstructSerialSender ==
    \E msgName \in Names, msgID \in MsgIDs, channel \in SerialChannels, idLen \in {0, 1} :
        /\ NoConstructorRunning
        /\ \A t \in Callers : calls[t].pc = "idle"
        /\ Validate(msgName, PyStr("send"), channel, msgID, PyInt(2)) = "ok"
        /\ Construct("SerialSender", msgName, channel, msgID, idLen, 0, PyInt(2), 0)
        /\ UNCHANGED <<accepted, sendVars, building, loggers>>

NextSendLong ==
    \/ ConstructSerialSender
    \/ \E name \in DOMAIN objs, msg \in {PyBytes(<<42>>), PyBytes(LongPayload)} :
           SendCheckPending(1, name, msg)
    \/ SendStartWorker(1)
    \/ \E writeOk \in BOOLEAN, fails \in SendFails : SendIteration(1, writeOk, fails)
    \/ SendJoin(1)

SpecSendLong == Init /\ [][NextSendLong]_vars

\* senders of timeout 1 and two threads that call send() on them
NextSendRace ==
    \/ ConstructSender({PyInt(1)}, {1})
    \/ \E t \in Callers, name \in DOMAIN objs, msg \in {PyBytes(<<42>>)} :
           SendCheckPending(t, name, msg)
    \/ \E t \in Callers : SendStartWorker(t)
    \/ \E t \in Callers, writeOk \in BOOLEAN, fails \in {0, max_retries} :
           SendIteration(t, writeOk, fails)
    \/ \E t \in Callers : SendJoin(t)

SpecSendRace == Init /\ [][NextSendRace]_vars

\* two senders and a receiver on one serial line: sender "a" with identifier
\* 16, sender "b" with 17, receiver "r" with 16
ConstructCounted ==
    \E cls \in {"SerialSender", "SerialReceiver"}, msgName \in Names \cup {PyStr("r")} :
        \E channel \in ChannelsOf(cls),
           msgID \in {IF msgName = PyStr("b") THEN PyInt(17) ELSE PyInt(16)} :
            /\ NoConstructorRunning
            /\ \A t \in Callers : calls[t].pc = "idle"
            /\ (cls = "SerialReceiver") <=> (msgName = PyStr("r"))
            /\ Validate(msgName, PyStr(OperationOf(cls)), channel, msgID, PyInt(2)) = "ok"
            /\ Construct(cls, msgName, channel, msgID, 1, 0, PyInt(2), 0)
            /\ UNCHANGED <<accepted, sendVars, building, loggers>>

\* the sender that caller thread t calls send() on
SenderOf(t) == IF t = 1 THEN "a" ELSE "b"

\* each of the two senders is used by a thread of its own while the
\* dispatcher of the line stores frames
NextSendCounters ==
    \/ ConstructCounted
    \/ \E name \in DOMAIN objs : SetCentralReceiverTail(name)
    \/ NoConstructorRunning /\ \E t \in Callers :
                                   SendCheckPending(t, SenderOf(t), PyBytes(<<42>>))
    \/ NoConstructorRunning /\ \E t \in Callers : SendStartWorker(t)
    \/ NoConstructorRunning /\ \E t \in Callers : SendWriteRead(t)
    \/ NoConstructorRunning /\ \E t \in Callers : SendAddStore(t)
    \/ NoConstructorRunning /\ \E t \in Callers : SendJoin(t)
    \/ NoConstructorRunning /\ \E ch \in DOMAIN threads : DispatchFrame(ch, 16, <<42>>)

SpecSendCounters == Init /\ [][NextSendCounters]_vars

\* receivers, their dispatcher threads and the callers of receive()
NextDispatch ==
    \/ ConstructReceiver
    \/ \E ch \in DOMAIN threads, fid \in FrameIDs, data \in Payloads :
           DispatchFrame(ch, fid, data)
    \/ \E name \in DOMAIN objs : SetCentralReceiverTail(name)
    \* the window between Thread.start() and the end of a constructor is short:
    \* the steps considered inside it are the reads of the started dispatcher
    \/ NoConstructorRunning /\ \E ch \in DOMAIN threads : ReadFail(ch)
    \/ NoConstructorRunning /\ \E ch \in DOMAIN threads, fails \in ConnectFails :
                                   Reconnect(ch, fails)
    \/ NoConstructorRunning /\ \E name \in DOMAIN objs : Receive(name)
    \/ NoConstructorRunning /\ \E ch \in DOMAIN threads : GatherReadFail(ch)

SpecDispatch == Init /\ [][NextDispatch]_vars

\* Serial receivers with a one-byte identifier header on a line that carries
\* frames of identifier 16, fails, and is reconnected
ConstructSerialReceiver ==
    \E msgName \in Names, msgID \in {PyInt(16), PyInt(17)}, channel \in SerialChannels :
        /\ NoConstructorRunning
        /\ Validate(msgName, PyStr("receive"), channel, msgID, PyInt(5)) = "ok"
        /\ Construct("SerialReceiver", msgName, channel, msgID, 1, 0, PyInt(5), 0)
        /\ UNCHANGED <<accepted, sendVars, building, loggers>>

NextRecover ==
    \/ ConstructSerialReceiver
    \/ \E name \in DOMAIN objs : SetCentralReceiverTail(name)
    \/ NoConstructorRunning /\ \E ch \in DOMAIN threads, data \in Payloads :
                                   DispatchFrame(ch, 16, data)
    \/ NoConstructorRunning /\ \E ch \in DOMAIN threads : ReadFail(ch)
    \/ NoConstructorRunning /\ \E ch \in DOMAIN threads, fails \in ConnectFails :
                                   Reconnect(ch, fails)
    \/ NoConstructorRunning /\ \E name \in DOMAIN objs : Receive(name)

SpecRecover == Init /\ [][NextRecover]_vars

\* the dispatcher thread is scheduled: when the line has a frame its
\* readline() returns it; and the application goes on polling receive()
FairSpecRecover ==
    /\ SpecRecover
    /\ WF_vars(NoConstructorRunning /\ \E ch \in DOMAIN threads, data \in Payloads :
                                           DispatchFrame(ch, 16, data))
    /\ \A n \in {x.s : x \in Names} : WF_vars(NoConstructorRunning /\ Receive(n))

-----------------------------------------------------------------------------
(* LoggingMixin.__init__, which BaseDriver.__init__ calls between the        *)
(* setters and _try_to_connect().  No other statement of the package reads   *)
(* or changes the handler list of a logger: the list is followed in          *)
(* SpecLogging, and the steps of the other specifications leave it alone.    *)

MaxInits == 2

\* f'hardware.{self.__class__.__name__}.{self.msgName}.server'
LoggerName(cls, name) == <<"hardware", cls, name, "server">>

\* os.path.join(os.getcwd(), 'hardware.log'); the package never changes the
\* working directory
LogFile == "hardware.log"

\* logging.getLogger(name): the logger of that name, created without handlers
\* at the first call; inits counts the __init__ calls that resolved to it
GetLogger(logs, key) ==
    IF key \in DOMAIN logs THEN logs[key] ELSE [handlers |-> <<>>, inits |-> 0]

LoggingMixinInitNoLookup(logs, cls, name) ==
    LET key == LoggerName(cls, name)
        logger == GetLogger(logs, key)
        h2 == logger.handlers
                  \o <<[kind |-> "console", level |-> "INFO", file |-> ""]>>
                  \o <<[kind |-> "file", level |-> "DEBUG", file |-> LogFile]>>
    IN  (key :> [handlers |-> h2, inits |-> logger.inits + 1]) @@ logs

\* LoggingMixin.__init__ on the loggers of the process
LoggingMixinInit(logs, cls, name) ==
    LET key == LoggerName(cls, name)
        logger == GetLogger(logs, key)
        h0 == logger.handlers
        hasConsole == \E i \in DOMAIN h0 : h0[i].kind = "console" /\ h0[i].level = "INFO"
        h1 == IF hasConsole THEN h0
              ELSE h0 \o <<[kind |-> "console", level |-> "INFO", file |-> ""]>>
        hasFile == \E i \in DOMAIN h1 : h1[i].kind = "file" /\ h1[i].file = LogFile
        h2 == IF hasFile THEN h1
              ELSE h1 \o <<[kind |-> "file", level |-> "DEBUG", file |-> LogFile]>>
    IN  (key :> [handlers |-> h2, inits |-> logger.inits + 1]) @@ logs

\* a construction with the logger set-up of its BaseDriver.__init__: the
\* setters raise before it, a failed connect and log_instance_created after it
ConstructLogged ==
    \E cls \in {"SerialSender", "SerialReceiver", "SPIReceiver"}, msgName \in Names,
       fails \in {0, max_retries} :
        \E channel \in ChannelsOf(cls) :
            /\ NoConstructorRunning
            /\ GetLogger(loggers, LoggerName(cls, msgName.s)).inits < MaxInits
            /\ Construct(cls, msgName, channel, PyInt(16), 1, 0, PyInt(5), fails)
            /\ loggers' = IF Validate(msgName, PyStr(OperationOf(cls)), channel,
                                      PyInt(16), PyInt(5)) = "ok"
                          THEN LoggingMixinInit(loggers, cls, msgName.s)
                          ELSE loggers
            /\ UNCHANGED <<accepted, sendVars, building>>

NextLogging ==
    \/ ConstructLogged
    \/ \E name \in DOMAIN objs : SetCentralReceiverTail(name)

SpecLogging == Init /\ [][NextLogging]_vars

-----------------------------------------------------------------------------
(* The actuator commands driver.  A struct format string is a sequence of   *)
(* one-character strings.                                                   *)

MaxFields == 3

\* the characters tried in a format string: "x" is not a key of TYPE_SIZES
FormatChars == {"b", "i", "q", "x"}

PyFormat(chars) == [ty |-> "str", chars |-> chars]

Formats == {PyFormat(c) : c \in UNION {[1..n -> FormatChars] : n \in 0..MaxFields}}
               \cup {PyInt(8)}

\* TYPE_SIZES of the acutators_commands_struct setter
TYPE_SIZES ==
    [c \in {"b", "B", "?", "h", "H", "i", "I", "q", "Q", "e", "f", "d"} |->
        IF c \in {"b", "B", "?"} THEN 1
        ELSE IF c \in {"h", "H", "e"} THEN 2
        ELSE IF c \in {"i", "I", "f"} THEN 4
        ELSE 8]

\* sum(TYPE_SIZES[char] for char in struct_string)
RECURSIVE MsgLen(_)
MsgLen(chars) ==
    IF chars = <<>> THEN 0 ELSE TYPE_SIZES[Head(chars)] + MsgLen(Tail(chars))

\* the acutators_commands_struct setter on a driver of class cls
StructSetter(cls, struct_string) ==
    IF struct_string.ty # "str" THEN "TypeError"
    ELSE IF \E i \in DOMAIN struct_string.chars :
                struct_string.chars[i] \notin DOMAIN TYPE_SIZES THEN "ValueError"
    ELSE IF cls = "CANSender" /\ MsgLen(struct_string.chars) > 8 THEN "MsgLengthError"
    ELSE "ok"

\* the driver setter: every instance is a BaseDriver with a send method
DriverSetter(cls) == IF OperationOf(cls) = "send" THEN "ok" ELSE "TypeError"

\* the actuators_names setter, for a list of distinct strings of the length
\* of the format string or for the default None
NamesSetter(named) == IF named THEN "ok" ELSE "TypeError"

\* ActuatorsCommandsDriver.__init__: the setters in the order of the
\* assignments, the first exception ends the construction
ActuatorsCommandsInit(cls, struct_string, named) ==
    IF DriverSetter(cls) # "ok" THEN DriverSetter(cls)
    ELSE IF StructSetter(cls, struct_string) # "ok" THEN StructSetter(cls, struct_string)
    ELSE NamesSetter(named)

\* the names that the module base_driver defines and another module can import
BaseDriverExports == {"BaseDriver", "ABC", "abstractmethod", "LoggingMixin",
                      "threading", "time"}

\* `from hardware.base_driver import BaseDriver, MsgLengthError`, the statement
\* that a program has to run to reach the class ActuatorsCommandsDriver
ImportActuatorCommandsDriver ==
    IF {"BaseDriver", "MsgLengthError"} \subseteq BaseDriverExports
    THEN "ok" ELSE "ImportError"

\* a program imports the module and constructs an ActuatorsCommandsDriver on
\* the registered instance `name`
Configure(name, struct_string, named) ==
    /\ name \in DOMAIN objs
    /\ objs[name].handle /\ objs[name].ctor = "done"
    /\ lastOp' = [NoOp EXCEPT !.kind = "configure", !.name = PyStr(name),
                              !.cls = objs[name].cls, !.msg = struct_string,
                              !.again = named,
                              !.result =
                                  IF ImportActuatorCommandsDriver # "ok"
                                  THEN ImportActuatorCommandsDriver
                                  ELSE ActuatorsCommandsInit(objs[name].cls,
                                                             struct_string, named)]
    /\ UNCHANGED <<instancesInfo, channelsOperationsInfo, receivedMsgsBuffer, objs,
                   threads, threadsStarted, building, loggers, framesRead, accepted, sendVars>>

\* instances to configure a layout on: senders of the two protocols, a receiver
ConstructConfigurable ==
    \E cls \in {"CANSender", "SerialSender", "CANReceiver"} :
        \E channel \in ChannelsOf(cls),
           msgName \in {IF cls = "CANSender" THEN PyStr("a") ELSE PyStr("b")} :
            /\ NoConstructorRunning
            /\ Validate(msgName, PyStr(OperationOf(cls)), channel, PyInt(16), PyInt(5)) = "ok"
            /\ Construct(cls, msgName, channel, PyInt(16),
                         IF ProtocolOf(cls) = "CAN" THEN 0 ELSE 1, 0, PyInt(5), 0)
            /\ UNCHANGED <<accepted, sendVars, building, loggers>>

NextConfigure ==
    \/ ConstructConfigurable
    \/ \E name \in DOMAIN objs : SetCentralReceiverTail(name)
    \/ NoConstructorRunning /\ \E name \in DOMAIN objs, struct_string \in Formats,
                                   named \in BOOLEAN :
                                   Configure(name, struct_string, named)

SpecConfigure == Init /\ [][NextConfigure]_vars

-----------------------------------------------------------------------------
(* Properties of the registry.                                              *)

\* the step just taken was a construction with these arguments
Constructed == lastOp'.kind = "construct"

NewName == lastOp'.name.s

NameTaken == lastOp'.name.ty = "str" /\ NewName \in DOMAIN instancesInfo

\* the registered instances of the scope the construction is aimed at
NewScope == SameOpChan(OperationOf(lastOp'.cls), lastOp'.ch.s)

Rejected ==
    /\ lastOp'.result = "ValueError"
    /\ UNCHANGED <<instancesInfo, channelsOperationsInfo, receivedMsgsBuffer,
                   objs, threads, threadsStarted>>

Registered(name) == name \in DOMAIN instancesInfo

IntIDUniqueInScope ==
    \A n1, n2 \in DOMAIN instancesInfo :
        /\ n1 # n2
        /\ instancesInfo[n1].channel = instancesInfo[n2].channel
        /\ instancesInfo[n1].operation = instancesInfo[n2].operation
        /\ instancesInfo[n1].id.ty = "int"
        => instancesInfo[n1].id # instancesInfo[n2].id

\* C2: in a (channel, operation) scope no two registered instances hold the
\* same integer identifier; a construction under a new name with an integer
\* identifier already held in its scope raises ValueError and changes nothing;
\* one whose scope holds neither that identifier nor a None identifier is not
\* rejected, whoever holds the identifier in other scopes, and is registered
\* as soon as a connect attempt succeeds.
C2_IdentifierScoped ==
    /\ []IntIDUniqueInScope
    /\ [][(Constructed /\ ~NameTaken /\ lastOp'.id.ty = "int") =>
             /\ (\E nm \in NewScope : instancesInfo[nm].id = lastOp'.id) => Rejected
             /\ (\A nm \in NewScope : instancesInfo[nm].id \notin {lastOp'.id, PyNone})
                    => /\ lastOp'.result # "ValueError"
                       /\ lastOp'.fails < 90 =>
                              /\ NewName \in DOMAIN instancesInfo'
                              /\ instancesInfo'[NewName].id = lastOp'.id]_vars

C2_Witness ==
    /\ lastOp.kind = "construct"
    /\ lastOp.result = "ValueError"
    /\ ~Registered(lastOp.name.s)
    /\ lastOp.id.ty = "int"
    /\ \E nm \in DOMAIN instancesInfo :
           /\ instancesInfo[nm].id = lastOp.id
           /\ instancesInfo[nm].channel = lastOp.ch.s
           /\ instancesInfo[nm].operation = OperationOf(lastOp.cls)

NoneIDAloneInScope ==
    \A n1, n2 \in DOMAIN instancesInfo :
        /\ n1 # n2
        /\ instancesInfo[n1].channel = instancesInfo[n2].channel
        /\ instancesInfo[n1].operation = instancesInfo[n2].operation
        => instancesInfo[n1].id # PyNone

\* C3: an instance registered without identifier is the only one of its
\* (channel, operation) scope: a construction with msgID None in a scope that
\* is not empty, and a construction with any msgID in a scope that holds a
\* None identifier, raise ValueError and change nothing.
C3_NoneSingleton ==
    /\ []NoneIDAloneInScope
    /\ [][(Constructed /\ ~NameTaken) =>
             /\ (lastOp'.id = PyNone /\ NewScope # {}) => Rejected
             /\ (\E nm \in NewScope : instancesInfo[nm].id = PyNone) => Rejected]_vars

C3_Witness ==
    /\ lastOp.kind = "construct"
    /\ lastOp.result = "ValueError"
    /\ ~Registered(lastOp.name.s)
    /\ lastOp.id.ty = "int"
    /\ \E nm \in DOMAIN instancesInfo :
           /\ instancesInfo[nm].id = PyNone
           /\ instancesInfo[nm].channel = lastOp.ch.s
           /\ instancesInfo[nm].operation = OperationOf(lastOp.cls)

ConstructionConnects ==
    lastOp.kind = "construct" =>
        /\ lastOp.attempts <= 90
        /\ lastOp.result \in {"TypeError", "ValueError"} => lastOp.attempts = 0
        /\ lastOp.result \notin {"TypeError", "ValueError"} =>
               /\ lastOp.fails >= 90 =>
                      /\ lastOp.result = "ConnectionError"
                      /\ lastOp.attempts = 90
                      /\ lastOp.slept = 2 * 90
                      /\ ~Registered(lastOp.name.s)
               /\ lastOp.fails < 90 =>
                      /\ lastOp.result # "ConnectionError"
                      /\ lastOp.attempts = lastOp.fails + 1
                      /\ lastOp.slept = 2 * lastOp.fails
                      /\ Registered(lastOp.name.s)

\* C4: a construction calls connect() at most 90 times and sleeps 2 units after
\* each failed call; when all 90 calls fail it raises ConnectionError and leaves
\* the three registry maps and the dispatcher threads as they were, the instance
\* in none of them; when call k <= 90 succeeds it makes no further call and the
\* instance is registered.
C4_BoundedStartupConnect ==
    /\ []ConstructionConnects
    /\ [][(Constructed /\ lastOp'.result = "ConnectionError") =>
             UNCHANGED <<instancesInfo, channelsOperationsInfo, receivedMsgsBuffer,
                         objs, threads, threadsStarted>>]_vars

C4_Witness ==
    /\ lastOp.kind = "construct"
    /\ lastOp.result = "ConnectionError"
    /\ lastOp.attempts = 90
    /\ lastOp.slept = 180
    /\ OperationOf(lastOp.cls) = "receive"
    /\ ~Registered(lastOp.name.s)
    /\ lastOp.ch.s \notin DOMAIN threads

ReceiversOn(ch) ==
    {nm \in DOMAIN instancesInfo :
        instancesInfo[nm].operation = "receive" /\ instancesInfo[nm].channel = ch}

OneThreadPerReceivingChannel ==
    \A ch \in DOMAIN threadsStarted :
        /\ threadsStarted[ch] = IF ReceiversOn(ch) # {} THEN 1 ELSE 0
        /\ ch \in DOMAIN threads <=> ReceiversOn(ch) # {}

\* C7: the number of dispatcher threads started for a channel is 1 when a
\* receiver has been constructed on it and 0 otherwise; the thread is started
\* by the construction of the channel's first receiver and runs that receiver's
\* central_receive; no later construction on the channel, of a receiver or of
\* a sender, starts another, nor does the second _set_central_receiver call of
\* the CAN constructor.
C7_OneDispatcherPerChannel ==
    /\ []OneThreadPerReceivingChannel
    /\ [][\A ch \in DOMAIN threadsStarted :
             threadsStarted'[ch] # threadsStarted[ch] =>
                 /\ Constructed
                 /\ ReceiversOn(ch) = {}
                 /\ ReceiversOn(ch)' = {NewName}
                 /\ threads'[ch].self = NewName]_vars

C7_Witness ==
    \E n1, n2 \in DOMAIN instancesInfo :
        /\ n1 # n2
        /\ instancesInfo[n1].protocol = "CANReceiver"
        /\ instancesInfo[n2].protocol = "CANReceiver"
        /\ instancesInfo[n1].channel = instancesInfo[n2].channel
        /\ threadsStarted[instancesInfo[n1].channel] = 1
        /\ threads[instancesInfo[n1].channel].self = n1
        /\ lastOp.name.s = n2

-----------------------------------------------------------------------------
(* Properties of the dispatcher threads.                                    *)

Alive(ch) == ch \in DOMAIN threads /\ threads[ch].pc \in {"run", "reconnect"}

FrameRead == lastOp'.kind = "frame" /\ lastOp'.result = "ok"

FrameChannel == lastOp'.ch.s

ReceiveIDsOn(ch) == {instancesInfo[nm].id : nm \in ReceiversOn(ch)}

\* C8: a frame read on a channel that carries the identifier of a receiver
\* registered on the channel, the first or a later one, replaces
\* ReceiveBuffer[identifier] by the frame's payload and adds one to the
\* identifier's receive counter (Serial, CAN and SPI).
C8_FrameDelivered ==
    [][(FrameRead /\ lastOp'.hdr /\ lastOp'.id \in ReceiveIDsOn(FrameChannel)) =>
          /\ receivedMsgsBuffer'[FrameChannel][lastOp'.id] = lastOp'.data
          /\ channelsOperationsInfo'[FrameChannel].receive[lastOp'.id]
                 = channelsOperationsInfo[FrameChannel].receive[lastOp'.id] + 1]_vars

\* the identifier a frame is filed under: the one it carries, or the
\* dispatching receiver's own when the channel has no identifier header
FiledUnder ==
    IF lastOp'.hdr THEN lastOp'.id ELSE objs[threads[FrameChannel].self].msgID

\* C9: a loop iteration that processes a frame with identifier X leaves the
\* buffer entry and the receive counter of every other identifier of the
\* channel, and every entry of every other channel, as they were.
C9_FrameTouchesOnlyItsIdentifier ==
    [][FrameRead =>
          /\ \A ch \in DOMAIN receivedMsgsBuffer :
                 /\ ch \in DOMAIN receivedMsgsBuffer'
                 /\ DOMAIN receivedMsgsBuffer'[ch] = DOMAIN receivedMsgsBuffer[ch]
                 /\ \A k \in DOMAIN receivedMsgsBuffer[ch] :
                        (ch # FrameChannel \/ k # FiledUnder) =>
                            receivedMsgsBuffer'[ch][k] = receivedMsgsBuffer[ch][k]
          /\ \A ch \in DOMAIN channelsOperationsInfo :
                 /\ ch # FrameChannel =>
                        channelsOperationsInfo'[ch] = channelsOperationsInfo[ch]
                 /\ channelsOperationsInfo'[ch].send = channelsOperationsInfo[ch].send
                 /\ DOMAIN channelsOperationsInfo'[ch].receive
                        = DOMAIN channelsOperationsInfo[ch].receive
                 /\ \A k \in DOMAIN channelsOperationsInfo[ch].receive :
                        (ch # FrameChannel \/ k # FiledUnder) =>
                            channelsOperationsInfo'[ch].receive[k]
                                = channelsOperationsInfo[ch].receive[k]]_vars

C9_Witness ==
    /\ lastOp.kind = "frame"
    /\ lastOp.result = "ok"
    /\ lastOp.id = PyInt(16)
    /\ objs[threads[lastOp.ch.s].self].cls = "SerialReceiver"
    /\ ReceiveIDsOn(lastOp.ch.s) = {PyInt(16), PyInt(17)}
    /\ receivedMsgsBuffer[lastOp.ch.s][PyInt(16)] = PyBytes(<<42>>)
    /\ receivedMsgsBuffer[lastOp.ch.s][PyInt(17)] = PyBytes(<<7>>)
    /\ channelsOperationsInfo[lastOp.ch.s].receive[PyInt(17)] = 1

\* C10: a frame that carries an identifier no receiver registered on the
\* channel has is dropped: the buffers keep their entries and values, the
\* per-identifier counters keep theirs, and the dispatcher loop goes on.
C10_UnknownFrameDropped ==
    [][(FrameRead /\ lastOp'.hdr /\ lastOp'.id \notin ReceiveIDsOn(FrameChannel)) =>
          /\ receivedMsgsBuffer' = receivedMsgsBuffer
          /\ \A ch \in DOMAIN channelsOperationsInfo :
                 /\ channelsOperationsInfo'[ch].receive = channelsOperationsInfo[ch].receive
                 /\ channelsOperationsInfo'[ch].send = channelsOperationsInfo[ch].send
          /\ DOMAIN channelsOperationsInfo' = DOMAIN channelsOperationsInfo
          /\ threads'[FrameChannel].pc = "run"]_vars

C10_Witness ==
    /\ lastOp.kind = "frame"
    /\ lastOp.result = "ok"
    /\ lastOp.hdr
    /\ lastOp.id = PyInt(18)
    /\ lastOp.id \notin {instancesInfo[nm].id : nm \in ReceiversOn(lastOp.ch.s)}
    /\ \E k \in DOMAIN receivedMsgsBuffer[lastOp.ch.s] :
           receivedMsgsBuffer[lastOp.ch.s][k] # PyNone
    /\ threads[lastOp.ch.s].pc = "run"

-----------------------------------------------------------------------------
(* Properties of the receive buffer.                                        *)

\* C11: receive() returns the payload of the frame the dispatcher accepted
\* last for the identifier of its instance: when frames A and then B have been
\* accepted (and the channel has not been invalidated since) the call returns
\* B's payload, not A's and not "no data".
C11_LatestWins ==
    (lastOp.kind = "receive" /\ accepted[lastOp.ch.s][lastOp.id] # PyNone)
        => lastOp.data = accepted[lastOp.ch.s][lastOp.id]

\* C12: receive() leaves the receive buffer as it was and returns the entry
\* of its instance's identifier, so that of two consecutive calls on the same
\* instance the second returns what the first returned.
C12_ReceiveIdempotent ==
    [][lastOp'.kind = "receive" =>
          /\ receivedMsgsBuffer' = receivedMsgsBuffer
          /\ lastOp'.data = receivedMsgsBuffer[lastOp'.ch.s][lastOp'.id]
          /\ (lastOp.kind = "receive" /\ lastOp.name = lastOp'.name)
                 => lastOp'.data = lastOp.data]_vars

C12_Witness ==
    /\ lastOp.kind = "receive"
    /\ lastOp.again
    /\ lastOp.data = PyBytes(<<42>>)
    /\ receivedMsgsBuffer[lastOp.ch.s][lastOp.id] = PyBytes(<<42>>)

\* the step just taken was a loop iteration in which a read of the channel raised
FailureDetected(ch) ==
    /\ lastOp'.ch.s = ch
    /\ \/ lastOp'.kind = "readfail"
       \/ lastOp'.kind = "frame" /\ lastOp'.result # "ok"

\* C13: a loop iteration in which a read of the channel raises leaves every
\* buffer entry of the channel None, and an entry that is None takes a value
\* only by the dispatcher accepting a frame for its identifier: no value
\* stored before the failure is there to be returned after it.
C13_InvalidatedUntilNewFrame ==
    [][\A ch \in DOMAIN receivedMsgsBuffer :
          /\ FailureDetected(ch) =>
                 \A k \in DOMAIN receivedMsgsBuffer'[ch] :
                     receivedMsgsBuffer'[ch][k] = PyNone
          /\ \A k \in DOMAIN receivedMsgsBuffer[ch] :
                 (receivedMsgsBuffer[ch][k] = PyNone /\ receivedMsgsBuffer'[ch][k] # PyNone)
                     => /\ lastOp'.kind = "frame"
                        /\ lastOp'.ch.s = ch
                        /\ accepted'[ch][k] = receivedMsgsBuffer'[ch][k]]_vars


-----------------------------------------------------------------------------
(* Properties of send()                                                     *)

\* C14: at any instant a sender has at most one write worker in flight, also
\* when two threads call send() on it concurrently; the second call is rejected
C14_OneWorkerPerSender ==
    \A name \in DOMAIN objs : Cardinality(InFlight(name)) <= 1

\* C15: whenever no send() is running on a sender, its message count and the
\* send counter of its identifier both equal the number of send() calls on
\* it that returned success
C15_CountsSuccessfulSends ==
    \A name \in DOMAIN objs :
        (OperationOf(objs[name].cls) = "send"
         /\ \A t \in Callers : calls[t].name # name)
            => /\ objs[name].numOfMsgs = succeeded[name]
               /\ instancesInfo[name].numOfMsgs = succeeded[name]
               /\ channelsOperationsInfo[objs[name].channel].send[objs[name].msgID]
                      = succeeded[name]

\* C16: a send() that returns failure has blocked its caller for at most the
\* sender's timeout plus 2 time units, whatever the reconnect attempts did
C16_BlockedAtMostTimeoutPlusTwo ==
    (lastOp.kind = "send" /\ lastOp.ret = PyInt(1))
        => lastOp.elapsed <= objs[lastOp.name.s].timeout + 2

\* C17: a send() of a bytes payload none of whose writes succeeded returns
\* failure, and not before the sender's timeout has elapsed
C17_FailureNotBeforeTimeout ==
    (lastOp.kind = "send" /\ lastOp.result # "rejected"
     /\ lastOp.msg.ty = "bytes" /\ lastOp.attempts = 0)
        => /\ lastOp.ret = PyInt(1)
           /\ lastOp.elapsed >= objs[lastOp.name.s].timeout

\* C20: every return of send() gives the integer 0 or the integer 1
C20_ReturnsZeroOrOne ==
    lastOp.kind = "send" => lastOp.ret \in {PyInt(0), PyInt(1)}

\* C18: the bytes a SerialSender writes are the identifier in msgIDLength
\* little-endian bytes, one byte holding the payload length, the payload and
\* a final 0x0A; with msgIDLength 0 they are the payload and a final 0x0A
C18_SerialWireFormat ==
    (lastOp.kind = "write" /\ lastOp.cls = "SerialSender")
        => LET N == objs[lastOp.name.s].msgIDLength
               id == lastOp.id.n
               p == lastOp.msg.b
               w == lastOp.data.b
           IN  /\ written[lastOp.ch.s].bytes = w
               /\ IF N = 0 THEN w = p \o <<10>>
                  ELSE /\ Len(w) = N + 1 + Len(p) + 1
                       /\ \A i \in 1..N : w[i] = (id \div (256 ^ (i - 1))) % 256
                       /\ w[N + 1] = Len(p)
                       /\ SubSeq(w, N + 2, N + 1 + Len(p)) = p
                       /\ w[Len(w)] = 10

C18_Witness ==
    /\ lastOp.kind = "write" /\ lastOp.cls = "SerialSender"
    /\ objs[lastOp.name.s].msgIDLength = 1
    /\ lastOp.id = PyInt(16) /\ lastOp.msg = PyBytes(<<42>>)
    /\ lastOp.data = PyBytes(<<16, 1, 42, 10>>)

\* C19: when the dispatcher of a SerialReceiver has read the bytes written by
\* a SerialSender of the same identifier and the same width N > 0, the
\* identifier being representable in N bytes and the payload at most 255
\* bytes long, the receive buffer entry of the identifier is the sent payload
C19_SerialRoundTrip ==
    lastOp.kind = "loopback"
        => LET sender == objs[lastOp.name.s]
               receiver == objs[threads[lastOp.ch.s].self]
           IN  (/\ receiver.msgID = sender.msgID
                /\ receiver.msgIDLength = sender.msgIDLength
                /\ sender.msgIDLength > 0
                /\ Representable(sender.msgID.n, sender.msgIDLength)
                /\ Len(lastOp.msg.b) <= 255)
                   => receivedMsgsBuffer[lastOp.ch.s][sender.msgID] = lastOp.msg

-----------------------------------------------------------------------------
(* Properties of the life cycle of an instance.                             *)

\* the arguments of the construction just made fail a check of the setters
FailsValidation ==
    \/ lastOp'.name.ty # "str"
    \/ NameTaken
    \/ lastOp'.ch.ty # "str"
    \/ lastOp'.id.ty \notin {"int", "NoneType"}
    \/ lastOp'.id = PyNone /\ NewScope # {}
    \/ \E nm \in NewScope : instancesInfo[nm].id \in {PyNone, lastOp'.id}
    \/ lastOp'.timeout.ty # "int"

\* C21: a construction whose arguments fail validation raises TypeError or
\* ValueError without a single connect attempt and leaves the instance
\* directory, the channel counters, the receive buffers, the objects and the
\* threads as they were
C21_ValidationFailsBeforeConnect ==
    [][(Constructed /\ FailsValidation) =>
          /\ lastOp'.result \in {"TypeError", "ValueError"}
          /\ lastOp'.attempts = 0 /\ lastOp'.slept = 0
          /\ UNCHANGED <<instancesInfo, channelsOperationsInfo, receivedMsgsBuffer,
                         objs, threads, threadsStarted>>]_vars

C21_Witness ==
    /\ lastOp.kind = "construct"
    /\ lastOp.result = "TypeError"
    /\ lastOp.name.ty = "str" /\ lastOp.ch.ty = "str" /\ lastOp.id.ty = "int"
    /\ lastOp.timeout.ty = "str"
    /\ instancesInfo # EmptyDict

\* the instance that stop() was called on
Stopped == lastOp'.name.s

\* C22: stop() changes the running flag of the instance and its mirror in
\* the instance directory and nothing else; a later construction that reuses
\* the name of a stopped instance, or its identifier in its (channel,
\* operation) scope, raises ValueError and changes nothing
C22_StopKeepsRegistration ==
    /\ [][lastOp'.kind = "stop" =>
             /\ objs' = [objs EXCEPT ![Stopped].isRunning = FALSE]
             /\ instancesInfo' = [instancesInfo EXCEPT ![Stopped].running = FALSE]
             /\ UNCHANGED <<channelsOperationsInfo, receivedMsgsBuffer>>]_vars
    /\ [][(Constructed /\ \E nm \in DOMAIN instancesInfo :
                              /\ ~instancesInfo[nm].running
                              /\ \/ nm = NewName
                                 \/ nm \in NewScope /\ instancesInfo[nm].id = lastOp'.id)
             => Rejected]_vars

C22_Witness ==
    /\ lastOp.kind = "construct"
    /\ lastOp.result = "ValueError"
    /\ ~Registered(lastOp.name.s)
    /\ \E nm \in DOMAIN instancesInfo :
           /\ ~instancesInfo[nm].running /\ ~objs[nm].isRunning
           /\ instancesInfo[nm].id = lastOp.id
           /\ instancesInfo[nm].channel = lastOp.ch.s
           /\ instancesInfo[nm].operation = OperationOf(lastOp.cls)

\* C23: no dispatcher loop that has started is ever found ended after a
\* stop() of a receiver of its channel: after whatever stop() calls, every
\* started loop is running or reconnecting (Serial and CAN)
C23_StopNeverHaltsLoop ==
    \A ch \in DOMAIN threads : threads[ch].pc # "exited"

\* C24: a disconnect() on an instance whose transport handle is already
\* closed does not raise and leaves the objects, the instance directory, the
\* channel counters and the buffers as they were
C24_DisconnectIdempotent ==
    [][(lastOp'.kind = "disconnect" /\ Closed(objs[lastOp'.name.s])) =>
          /\ lastOp'.result = "ok"
          /\ UNCHANGED <<objs, instancesInfo, channelsOperationsInfo,
                         receivedMsgsBuffer, threads>>]_vars

C24_Witness ==
    /\ lastOp.kind = "disconnect" /\ lastOp.again
    /\ lastOp.cls = "SerialReceiver"
    /\ ~objs[lastOp.name.s].isConnected
    /\ ~instancesInfo[lastOp.name.s].running

\* C25: a receive() made while the dispatcher of the channel is between a
\* detected failure and its next successful connect, or made before any frame
\* was accepted for the identifier, returns None and does not raise; while a
\* dispatcher is in that phase every buffer entry of its channel is None
C25_NoDataWhileReconnecting ==
    /\ \A ch \in DOMAIN threads :
           threads[ch].pc = "reconnect"
               => \A k \in DOMAIN receivedMsgsBuffer[ch] :
                      receivedMsgsBuffer[ch][k] = PyNone
    /\ lastOp.kind = "receive"
           => /\ lastOp.result = "ok"
              /\ (\/ threads[lastOp.ch.s].pc = "reconnect"
                  \/ channelsOperationsInfo[lastOp.ch.s].receive[lastOp.id] = 0)
                     => lastOp.data = PyNone

C25_Witness ==
    /\ lastOp.kind = "receive"
    /\ threads[lastOp.ch.s].pc = "reconnect"
    /\ channelsOperationsInfo[lastOp.ch.s].receive[lastOp.id] > 0
    /\ lastOp.data = PyNone

\* C26: after a write of the send path has failed on a channel, every
\* receive buffer entry of the channel is None
C26_WriteFailureInvalidates ==
    (lastOp.kind = "write_failed" /\ lastOp.ch.s \in DOMAIN receivedMsgsBuffer)
        => \A k \in DOMAIN receivedMsgsBuffer[lastOp.ch.s] :
               receivedMsgsBuffer[lastOp.ch.s][k] = PyNone

\* the bytes of the frames that the successful send() calls on the senders of
\* channel ch have written
RECURSIVE SumSent(_)
SumSent(names) ==
    IF names = {} THEN 0
    ELSE LET n == CHOOSE x \in names : TRUE
         IN  succeeded[n] * Len(SerialFrame(objs[n], <<42>>).bytes)
                 + SumSent(names \ {n})

SendersOn(ch) ==
    {n \in DOMAIN objs : objs[n].channel = ch /\ OperationOf(objs[n].cls) = "send"
                                              /\ objs[n].handle}

\* C27: when no send() call is under way, the sent-byte counter of a channel
\* (below the threshold of the housekeeping reset) is the sum of the lengths of
\* the frames its senders have sent and the send counter of each identifier is
\* the number of successful sends of its sender, whatever the interleaving of
\* two senders of the channel and of its dispatcher.
C27_CountersNotLost ==
    (\A t \in Callers : calls[t].pc = "idle") =>
        \A ch \in DOMAIN channelsOperationsInfo :
            /\ channelsOperationsInfo[ch].sentInBuffer = SumSent(SendersOn(ch))
            /\ \A n \in SendersOn(ch) :
                   channelsOperationsInfo[ch].send[objs[n].msgID] = succeeded[n]

\* a format string of fields known to the setter
ValidFormat(f) ==
    f.ty = "str" /\ \A i \in DOMAIN f.chars : f.chars[i] \in DOMAIN TYPE_SIZES

\* C29: a layout of known fields configured, with its field names, on a CAN
\* sender is accepted exactly when its fields add up to at most 8 bytes, and
\* one that adds up to more is rejected with the length error.
C29_LayoutFitsCANFrame ==
    (/\ lastOp.kind = "configure"
     /\ lastOp.cls = "CANSender"
     /\ ValidFormat(lastOp.msg)
     /\ lastOp.again) =>
        /\ lastOp.result = "ok" <=> MsgLen(lastOp.msg.chars) <= 8
        /\ MsgLen(lastOp.msg.chars) > 8 => lastOp.result = "MsgLengthError"

\* C28: a packet read by the dispatcher of an SPI channel, whatever the header
\* widths L and N of the dispatching receiver, is stored: the bytes after the
\* L length bytes and the N identifier bytes under the identifier read from
\* the N bytes when it is registered, the whole packet under the receiver's
\* own identifier when there are no headers.
C28_SPIPacketStored ==
    [][(/\ lastOp'.kind = "frame"
        /\ ProtocolOf(objs[threads[FrameChannel].self].cls) = "SPI"
        /\ FiledUnder \in DOMAIN receivedMsgsBuffer[FrameChannel]) =>
          /\ lastOp'.result = "ok"
          /\ receivedMsgsBuffer'[FrameChannel][FiledUnder] =
                 IF lastOp'.hdr THEN lastOp'.data
                 ELSE PyBytes(SPIWire(0, lastOp'.id.n, lastOp'.data.b))]_vars

\* C30: a call of receive() adds exactly one to the message count of the
\* instance, in the object and in its registry entry, whether or not a frame
\* has been stored since the call before.
C30_ReceiveCountsCalls ==
    [][lastOp'.kind = "receive" =>
          /\ objs'[lastOp'.name.s].numOfMsgs = objs[lastOp'.name.s].numOfMsgs + 1
          /\ instancesInfo'[lastOp'.name.s].numOfMsgs =
                 instancesInfo[lastOp'.name.s].numOfMsgs + 1]_vars

-----------------------------------------------------------------------------
(* Properties of the loggers.                                               *)

HandlersOf(key, kind, level) ==
    {i \in DOMAIN loggers[key].handlers :
        loggers[key].handlers[i].kind = kind /\ loggers[key].handlers[i].level = level}

-----------------------------------------------------------------------------
(* Properties of the arguments of a construction.                           *)

-----------------------------------------------------------------------------
(* Further properties of send().                                            *)

\* C33: __pending_message of a sender is set only while a send() call on it
\* is between the start of its worker and its return; every send() call that
\* started a worker returns with the marker clear, whether the worker
\* returned success or failure or died of an exception; and in a series of
\* send() calls made one after the other none is turned away.
C33_MarkerClearAfterSend ==
    /\ [](\A name \in DOMAIN objs :
             objs[name].pending_message # PyNone =>
                 \E t \in Callers : calls[t].pc = "working" /\ calls[t].name = name)
    /\ [][lastOp'.kind = "send" =>
             /\ lastOp'.result # "rejected"
             /\ objs'[lastOp'.name.s].pending_message = PyNone]_vars

C33_Witness ==
    /\ lastOp.kind = "send"
    /\ lastOp.result = "IndexError"
    /\ calls[1].made = 2
    /\ succeeded[lastOp.name.s] = 1

-----------------------------------------------------------------------------
(* Further properties of the serial dispatcher.                             *)

NoNewline(bs) == \A i \in DOMAIN bs : bs[i] # 10

\* the sender of the bytes just read and the receiver whose loop read them
\* use the same identifier width N > 0 and the identifier has no 0x0A byte
SameHeader ==
    LET sender == objs[lastOp'.name.s]
        receiver == objs[threads[lastOp'.ch.s].self]
    IN  /\ sender.msgIDLength = receiver.msgIDLength
        /\ sender.msgIDLength > 0
        /\ Representable(sender.msgID.n, sender.msgIDLength)
        /\ NoNewline(ToBytesLittle(sender.msgID.n, sender.msgIDLength))

\* C34: with an identifier header, a frame whose payload or length byte holds
\* 0x0A, read in several lines, is stored whole under its registered
\* identifier and counted once; a frame of which only a part arrives before
\* a read returns nothing changes neither the buffers nor the counters of
\* the channel, and the loop goes on.
C34_GathersDeclaredLength ==
    [][/\ (lastOp'.kind = "loopback" /\ SameHeader
            /\ lastOp'.id \in DOMAIN receivedMsgsBuffer[lastOp'.ch.s]) =>
              /\ receivedMsgsBuffer'[lastOp'.ch.s][lastOp'.id] = lastOp'.msg
              /\ channelsOperationsInfo'[lastOp'.ch.s].receive[lastOp'.id] =
                     channelsOperationsInfo[lastOp'.ch.s].receive[lastOp'.id] + 1
       /\ (lastOp'.kind = "truncated" /\ SameHeader) =>
              /\ UNCHANGED <<receivedMsgsBuffer, channelsOperationsInfo>>
              /\ threads'[lastOp'.ch.s].pc = "run"]_vars

C34_Witness ==
    /\ lastOp.kind = "loopback"
    /\ lastOp.msg = PyBytes(<<1, 2, 3, 4, 5, 6, 7, 8, 9, 11>>)
    /\ lastOp.id = PyInt(16)
    /\ objs[lastOp.name.s].msgIDLength = 1
    /\ objs[threads[lastOp.ch.s].self].msgIDLength = 1
    /\ PyInt(16) \in DOMAIN receivedMsgsBuffer[lastOp.ch.s]
    /\ receivedMsgsBuffer[lastOp.ch.s][PyInt(16)] = lastOp.msg

-----------------------------------------------------------------------------
(* Properties of constructions that overlap.                                *)

\* the constructions that returned an object
Built == {t \in Builders : building[t].pc = "done"}

\* C35: of two constructions made by different threads, overlapping or not,
\* that use the same name, or the same channel, operation and identifier,
\* at most one returns a registered instance.
C35_UniqueUnderConcurrency ==
    \A t1, t2 \in Built :
        t1 # t2 =>
            /\ building[t1].name # building[t2].name
            /\ ~ /\ building[t1].ch = building[t2].ch
                  /\ OperationOf(building[t1].cls) = OperationOf(building[t2].cls)
                  /\ building[t1].id = building[t2].id
-----------------------------------------------------------------------------
\* C36: a send() call that went through its worker wrote the frame to the
\* transport at most once, and it returned 0 exactly when it wrote the frame.
C36_WrittenOnceIffSuccess ==
    (lastOp.kind = "send" /\ lastOp.result # "rejected")
        => /\ lastOp.attempts <= 1
           /\ (lastOp.ret = PyInt(0)) <=> (lastOp.attempts = 1)

-----------------------------------------------------------------------------
\* the dispatcher of the line of receiver n, which holds identifier 16, has
\* just reconnected after a failure, and the line has a frame to deliver
Recovered(n) ==
    /\ lastOp.kind = "reconnect" /\ lastOp.result = "ok"
    /\ n \in DOMAIN objs
    /\ objs[n].handle /\ objs[n].ctor = "done"
    /\ OperationOf(objs[n].cls) = "receive"
    /\ objs[n].channel = lastOp.ch.s
    /\ objs[n].msgID = PyInt(16)
    /\ framesRead < MaxFrames

\* receive() of receiver n returned a payload
ReceivedPayload(n) ==
    lastOp.kind = "receive" /\ lastOp.name = PyStr(n) /\ lastOp.data # PyNone

\* the read of the transport raised again
FailedAgain == lastOp.kind = "readfail" /\ lastOp.result = "IOError"

\* C37: once the dispatcher has reconnected after a transport failure and
\* frames of a registered identifier arrive, receive() on the instance of that
\* identifier eventually returns a payload, which was received after the
\* reconnect since the failure had cleared the buffer (unless the transport
\* fails again first).
C37_ReceivesAfterReconnect ==
    \A n \in {x.s : x \in Names} : Recovered(n) ~> (ReceivedPayload(n) \/ FailedAgain)

\* the dispatcher of a line with a receiver of identifier 16 has reconnected
\* at the last connect() attempt of its retry budget, the buffer of the line holds no payload,
\* and the line has a frame to deliver
C37_Witness ==
    /\ \E n \in DOMAIN objs : Recovered(n)
    /\ lastOp.fails = max_retries - 1 /\ lastOp.attempts = max_retries
    /\ threads[lastOp.ch.s].pc = "run"
    /\ receivedMsgsBuffer[lastOp.ch.s][PyInt(16)] = PyNone

-----------------------------------------------------------------------------
\* C38: a payload held in the buffer of a line changes only in a step of the
\* dispatcher (a frame it read, or the invalidation after a failure), and no
\* read of the dispatcher raises for an attribute the constructor has yet to
\* assign.
C38_ConstructorLeavesDeliveredPayload ==
    [][/\ \A ch \in DOMAIN receivedMsgsBuffer : \A k \in DOMAIN receivedMsgsBuffer[ch] :
             (/\ receivedMsgsBuffer[ch][k] # PyNone
              /\ receivedMsgsBuffer'[ch][k] # receivedMsgsBuffer[ch][k])
                 => lastOp'.kind \in {"frame", "readfail"}
       /\ lastOp'.kind = "frame" => lastOp'.result # "AttributeError"]_vars

-----------------------------------------------------------------------------
\* the step is a frame the dispatcher of channel ch stored under identifier k
StoredFor(ch, k) ==
    /\ FrameRead
    /\ FrameChannel = ch
    /\ FiledUnder = k
    /\ k \in DOMAIN receivedMsgsBuffer[ch]
    /\ ProtocolOf(objs[threads[ch].self].cls) = "CAN" => k = objs[threads[ch].self].msgID
    /\ receivedMsgsBuffer'[ch][k] = lastOp'.data

\* C39: the receive counter of an identifier starts at 0 when the identifier
\* is registered, goes up by one in the steps in which the dispatcher stores a
\* frame under the identifier, and is left as it is by every other step:
\* invalidation of the buffer, reconnect, stop() and disconnect() among them.
C39_CounterCountsAcceptedFrames ==
    [][\A ch \in DOMAIN channelsOperationsInfo' :
          \A k \in DOMAIN channelsOperationsInfo'[ch].receive :
              IF ch \in DOMAIN channelsOperationsInfo
                 /\ k \in DOMAIN channelsOperationsInfo[ch].receive
              THEN channelsOperationsInfo'[ch].receive[k] =
                       channelsOperationsInfo[ch].receive[k]
                           + IF StoredFor(ch, k) THEN 1 ELSE 0
              ELSE channelsOperationsInfo'[ch].receive[k] = 0]_vars

\* two frames were counted for identifier 16; the buffer of the line has been
\* invalidated since, and its receiver has been stopped
C39_Witness ==
    \E n \in DOMAIN objs :
        /\ OperationOf(objs[n].cls) = "receive"
        /\ objs[n].msgID = PyInt(16)
        /\ ~instancesInfo[n].running
        /\ channelsOperationsInfo[objs[n].channel].receive[PyInt(16)] = 2
        /\ receivedMsgsBuffer[objs[n].channel][PyInt(16)] = PyNone
        /\ lastOp.kind = "reconnect" /\ lastOp.result = "ok"
        /\ lastOp.ch = PyStr(objs[n].channel)

-----------------------------------------------------------------------------
\* C40: a send() of a Serial sender with an identifier header and a payload
\* of more than 255 bytes writes nothing and returns 1, and the length byte
\* of every frame written with a header is the length of its payload.
C40_LongPayloadNotWritten ==
    /\ (/\ lastOp.kind = "send" /\ lastOp.result # "rejected"
        /\ lastOp.cls = "SerialSender"
        /\ objs[lastOp.name.s].msgIDLength > 0
        /\ lastOp.msg.ty = "bytes" /\ Len(lastOp.msg.b) > 255)
           => lastOp.attempts = 0 /\ lastOp.ret = PyInt(1)
    /\ \A ch \in DOMAIN written :
           (/\ written[ch] # NoWrite
            /\ objs[written[ch].name].cls = "SerialSender"
            /\ objs[written[ch].name].msgIDLength > 0)
               => written[ch].bytes[objs[written[ch].name].msgIDLength + 1]
                      = Len(written[ch].msg.b)

\* send() of a payload of 256 bytes on a sender with a header has returned 1
\* at the timeout, after the reconnects of its failed iterations
C40_Witness ==
    /\ lastOp.kind = "send" /\ lastOp.result = "returned"
    /\ lastOp.cls = "SerialSender"
    /\ objs[lastOp.name.s].msgIDLength = 1
    /\ lastOp.msg = PyBytes(LongPayload)
    /\ lastOp.ret = PyInt(1)
    /\ lastOp.elapsed >= objs[lastOp.name.s].timeout
    /\ written[objs[lastOp.name.s].channel] = NoWrite

====
